---- MODULE Spec2Model ----
(***************************************************************************)
(* proto-sync: the manifest annotation parser                              *)
(* (GoModRepositoryImpl.ParseProtobufLibraries) and the sync orchestrator  *)
(* (ProtoSyncServiceImpl.Sync and the functions it calls).                 *)
(*                                                                         *)
(* Text is modelled as a sequence of atoms.  An atom is either one         *)
(* whitespace character or a piece of text without whitespace that the     *)
(* code treats as a unit: the keyword "replace", the arrow "=>", the       *)
(* comment token "//", the hosting prefix "github.com/", the words of the  *)
(* marker phrase in several letter cases, and opaque words.  A line is a   *)
(* sequence of atoms, a token is a maximal run of non-space atoms.         *)
(***************************************************************************)
EXTENDS Integers, Sequences, FiniteSets, TLC

VARIABLES
    goMod,        \* the file at config.GoModPath: [exists, lines, errAt]
    parseOut,     \* result of a stand-alone ParseProtobufLibraries call, <<>> before it
    bufYaml,      \* the file at config.BufYamlPath: [exists, readOk, yamlOk, modules]
    config,       \* the *SyncConfig handed to Sync
    config0,      \* config as the caller built it (TargetPath left out: Sync only writes it)
    target,       \* the directory named by the first module of buf.yaml: [exists, files]
    target0,      \* target before Sync
    cache,        \* GOMODCACHE as far as observed: <<name, version>> -> [dir, files]
    downloaded,   \* the <<name, version>> fetched by this run
    cancelled,    \* ctx.Done() is closed
    startedAtCancel, \* number of sources started when ctx was cancelled, -1 before
    pc,           \* where Sync stands
    resolved,     \* `repositories` at line 94: resolved and overridden, not yet truncated
    repositories, \* `repositories` at line 101
    results,      \* `results`
    calls,        \* collaborator calls so far: [op, src, arg, ok], src 0 outside the loop
    previews,     \* what dryRunRepository printed as step 4, one entry per source
    banner,       \* the summary the logger got at lines 121-126
    ret,          \* <<>> until Sync returns, then <<[results, err]>>
    listResult    \* `result` of ListVersions: repo.Name -> versions

vars == <<listResult, goMod, parseOut, bufYaml, config, config0, target, target0, cache,
          downloaded, cancelled, startedAtCancel, pc, resolved, repositories,
          results, calls, previews, banner, ret>>

\* An error is a sequence: <<>> is nil, <<msg>> \o inner is fmt.Errorf("msg: %w", inner).
NoError == <<>>

SP == " "

\* ---------------------------------------------------------------------------
\* Bounds
\* ---------------------------------------------------------------------------
MaxLines == 3
MaxRepos == 2

\* ---------------------------------------------------------------------------
\* strings package, on atom sequences
\* ---------------------------------------------------------------------------
Min(S) == CHOOSE x \in S : \A y \in S : x <= y
Max(S) == CHOOSE x \in S : \A y \in S : x >= y

IsSpace(a) == a = SP

ToLowerAtom(a) ==
    CASE a = "Protobuf"  -> "protobuf"
      [] a = "PROTOBUF"  -> "protobuf"
      [] a = "Libraries" -> "libraries"
      [] a = "LIBRARIES" -> "libraries"
      [] OTHER           -> a

ToLower(s) == [i \in 1..Len(s) |-> ToLowerAtom(s[i])]

TrimSpace(s) ==
    LET ns == {i \in 1..Len(s) : ~IsSpace(s[i])}
    IN  IF ns = {} THEN <<>> ELSE SubSeq(s, Min(ns), Max(ns))

Contains(s, substr) ==
    \E i \in 0..(Len(s) - Len(substr)) : SubSeq(s, i + 1, i + Len(substr)) = substr

HasPrefix(s, prefix) ==
    Len(s) >= Len(prefix) /\ SubSeq(s, 1, Len(prefix)) = prefix

TrimPrefix(s, prefix) ==
    IF HasPrefix(s, prefix) THEN SubSeq(s, Len(prefix) + 1, Len(s)) ELSE s

\* ---------------------------------------------------------------------------
\* replaceRegex:
\*   ^\s*replace\s+([^\s]+)\s+([^\s]+)\s*=>\s*([^\s]+)\s+([^\s]+)
\* FindStringSubmatch returns <<>> (nil) when the line does not match and
\* <<whole, g1, g2, g3, g4>> otherwise; quantifiers are greedy, the match is
\* anchored at the start of the line only.
\* ---------------------------------------------------------------------------
\* first index >= i holding a non-space atom, Len(s)+1 when there is none
SkipSpace(s, i) ==
    LET ns == {j \in i..Len(s) : ~IsSpace(s[j])}
    IN  IF ns = {} THEN Len(s) + 1 ELSE Min(ns)

\* last index of the run of non-space atoms that starts at i
RunEnd(s, i) ==
    LET sp == {j \in i..Len(s) : IsSpace(s[j])}
    IN  IF sp = {} THEN Len(s) ELSE Min(sp) - 1

\* the part of the pattern after "=>", the arrow standing at index f:
\*   \s*([^\s]+)\s+([^\s]+)
\* gives <<>> or <<g3, g4, end of match>>
AfterArrow(s, f) ==
    LET h == SkipSpace(s, f + 1)
    IN  IF h > Len(s) THEN <<>>
        ELSE LET m == RunEnd(s, h)
                 k == SkipSpace(s, m + 1)
             IN  IF k > Len(s) THEN <<>>
                 ELSE <<SubSeq(s, h, m), SubSeq(s, k, RunEnd(s, k)), RunEnd(s, k)>>

\* index of the arrow that follows a second group ending at e - 1, 0 when none:
\*   \s*=>
ArrowAfter(s, e) ==
    LET f == SkipSpace(s, e)
    IN  IF f <= Len(s) /\ s[f] = "=>" THEN f ELSE 0

FindStringSubmatch(s) ==
    LET a == SkipSpace(s, 1)
    IN  IF ~(a + 1 <= Len(s) /\ s[a] = "replace" /\ IsSpace(s[a + 1])) THEN <<>>
        ELSE
        LET b == SkipSpace(s, a + 1)
        IN  IF b > Len(s) THEN <<>>
            ELSE
            LET c == RunEnd(s, b)
                d == SkipSpace(s, c + 1)
            IN  IF d > Len(s) THEN <<>>
                ELSE
                LET r  == RunEnd(s, d)
                    \* ends (exclusive) of the second group that let the rest match
                    es == {e \in (d + 1)..(r + 1) :
                             /\ ArrowAfter(s, e) # 0
                             /\ AfterArrow(s, ArrowAfter(s, e)) # <<>>}
                IN  IF es = {} THEN <<>>
                    ELSE
                    LET e    == Max(es)
                        rest == AfterArrow(s, ArrowAfter(s, e))
                    IN  << SubSeq(s, 1, rest[3]),
                           SubSeq(s, b, c),
                           SubSeq(s, d, e - 1),
                           rest[1],
                           rest[2] >>

\* ---------------------------------------------------------------------------
\* ParseProtobufLibraries.  A file is [exists, lines, errAt]; a *GoModInfo is a
\* sequence of length 0 (nil) or 1.
\* ---------------------------------------------------------------------------
GithubPrefix == <<"github.com/">>
MarkerNeedle == <<"//", SP, "protobuf", SP, "libraries">>
ProtobufNeedle == <<"protobuf">>

\* variant: the hosting prefix is added without removing the one that is there
RepositoryOfKeepingPrefix(matches) ==
    [ Name    |-> GithubPrefix \o matches[4],
      Version |-> matches[5],
      URL     |-> <<"https://">> \o GithubPrefix \o matches[4] ]

\* the Repository built from the submatches of one directive line
RepositoryOf(matches) ==
    LET remoteRepo == TrimPrefix(matches[4], GithubPrefix)
    IN  [ Name    |-> GithubPrefix \o remoteRepo,
          Version |-> matches[5],
          URL     |-> <<"https://">> \o GithubPrefix \o remoteRepo ]

\* variant: once the marker is found, lines are no longer tested for it
RECURSIVE ScanLoopMarkerOnce(_, _, _, _, _)
ScanLoopMarkerOnce(lines, errAt, i, foundComment, repos) ==
    IF i = errAt
    THEN [found |-> foundComment, repos |-> repos, err |-> TRUE]
    ELSE IF i > Len(lines)
    THEN [found |-> foundComment, repos |-> repos, err |-> FALSE]
    ELSE
    LET line == TrimSpace(lines[i])
    IN  IF ~foundComment
        THEN ScanLoopMarkerOnce(lines, errAt, i + 1,
                                Contains(ToLower(line), MarkerNeedle), repos)
        ELSE IF line = <<>> \/ (HasPrefix(line, <<"//">>)
                                  /\ ~Contains(ToLower(line), ProtobufNeedle))
        THEN [found |-> foundComment, repos |-> repos, err |-> FALSE]
        ELSE
        LET matches == FindStringSubmatch(line)
        IN  IF Len(matches) = 5
            THEN ScanLoopMarkerOnce(lines, errAt, i + 1, foundComment,
                                    Append(repos, RepositoryOf(matches)))
            ELSE ScanLoopMarkerOnce(lines, errAt, i + 1, foundComment, repos)

\* the scanner loop from line i on; errAt is the line at which Scan() fails
\* (0: never).  Gives [found, repos, err], err being scanner.Err() # nil.
RECURSIVE ScanLoop(_, _, _, _, _)
ScanLoop(lines, errAt, i, foundComment, repos) ==
    IF i = errAt
    THEN [found |-> foundComment, repos |-> repos, err |-> TRUE]
    ELSE IF i > Len(lines)
    THEN [found |-> foundComment, repos |-> repos, err |-> FALSE]
    ELSE
    LET line == TrimSpace(lines[i])
    IN  IF Contains(ToLower(line), MarkerNeedle)
        THEN ScanLoop(lines, errAt, i + 1, TRUE, repos)
        ELSE IF ~foundComment
        THEN ScanLoop(lines, errAt, i + 1, foundComment, repos)
        ELSE IF line = <<>> \/ (HasPrefix(line, <<"//">>)
                                  /\ ~Contains(ToLower(line), ProtobufNeedle))
        THEN [found |-> foundComment, repos |-> repos, err |-> FALSE]
        ELSE
        LET matches == FindStringSubmatch(line)
        IN  IF Len(matches) = 5
            THEN ScanLoop(lines, errAt, i + 1, foundComment,
                          Append(repos, RepositoryOf(matches)))
            ELSE ScanLoop(lines, errAt, i + 1, foundComment, repos)

ErrOpen == "failed to open go.mod file"
ErrRead == "error reading go.mod file"
ErrMarker == "could not find '// Protobuf libraries' comment"

\* variant: an empty section is an error
ParseProtobufLibrariesStrict(file) ==
    IF ~file.exists THEN [Err |-> <<ErrOpen, "os error">>, Info |-> <<>>]
    ELSE
    LET s == ScanLoop(file.lines, file.errAt, 1, FALSE, <<>>)
    IN  IF s.err THEN [Err |-> <<ErrRead, "scanner error">>, Info |-> <<>>]
        ELSE IF ~s.found THEN [Err |-> <<ErrMarker>>, Info |-> <<>>]
        ELSE IF s.repos = <<>>
        THEN [Err |-> <<"no protobuf libraries found">>, Info |-> <<>>]
        ELSE [Err |-> NoError, Info |-> <<[Repositories |-> s.repos]>>]

ParseProtobufLibraries(file) ==
    IF ~file.exists THEN [Err |-> <<ErrOpen, "os error">>, Info |-> <<>>]
    ELSE
    LET s == ScanLoop(file.lines, file.errAt, 1, FALSE, <<>>)
    IN  IF s.err THEN [Err |-> <<ErrRead, "scanner error">>, Info |-> <<>>]
        ELSE IF ~s.found THEN [Err |-> <<ErrMarker>>, Info |-> <<>>]
        ELSE [Err |-> NoError, Info |-> <<[Repositories |-> s.repos]>>]

\* ---------------------------------------------------------------------------
\* Collaborators.  A function of the code that calls collaborators is modelled
\* by the set of its possible outcomes: each outcome holds what the function
\* returns, the collaborator calls it made (in order) and the world w it
\* leaves, w == [target, cache, downloaded, cancelled].
\* ---------------------------------------------------------------------------
Call(op, src, arg, ok) == [op |-> op, src |-> src, arg |-> arg, ok |-> ok]

\* the paths of files below a directory, relative to it, in the order
\* filepath.Walk visits them (lexical, a directory's files in its place)
WalkOrder == <<"a.proto", "b.proto", "c.proto", "sub/a.proto", "sub/deep/b.proto">>

\* info.Name(): the base name of a file
Base(n) ==
    CASE n = "sub/a.proto"      -> "a.proto"
      [] n = "sub/deep/b.proto" -> "b.proto"
      [] OTHER                  -> n

\* filepath.Join(dir, name)
Join(dir, name) == Append(dir, name)

\* domain.ProtoFile (Size and ModifiedTime are not read by the service)
ProtoFile(name, path) == [Name |-> name, Path |-> path]

\* variant: the listing stays in the directory itself
ListingTopLevelOnly(dir, names) ==
    LET ns == SelectSeq(WalkOrder, LAMBDA n : n \in names /\ Base(n) = n)
    IN  [k \in 1..Len(ns) |-> ProtoFile(ns[k], Join(dir, ns[k]))]

\* the listing of a directory holding the files `names`, nested ones
\* included, in walk order: Name is the base name, Path the whole path
Listing(dir, names) ==
    LET ns == SelectSeq(WalkOrder, LAMBDA n : n \in names)
    IN  [k \in 1..Len(ns) |-> ProtoFile(Base(ns[k]), Join(dir, ns[k]))]

\* FileRepositoryImpl.ListFiles: the whole listing, or an error of the walk
\* together with the files listed before it; a missing directory is an error
ListFiles(exists, listing) ==
    IF ~exists THEN {[files |-> <<>>, err |-> <<"walk error">>]}
    ELSE {[files |-> listing, err |-> NoError]}
         \cup {[files |-> SubSeq(listing, 1, n), err |-> <<"walk error">>] :
                  n \in 0..Len(listing)}

\* FileRepositoryImpl.CopyFile into the target directory: done; failed before
\* the destination was created; failed after it was created
CopyFile(w, name) ==
    { [err |-> NoError,
       w   |-> [w EXCEPT !.target = [exists |-> TRUE, files |-> @.files \cup {name}]]],
      [err |-> <<"failed to open source file">>, w |-> w],
      [err |-> <<"failed to copy file from">>,
       w   |-> [w EXCEPT !.target = [exists |-> TRUE, files |-> @.files \cup {name}]]] }

\* FileRepositoryImpl.CreateDir of the target directory
CreateDir(w) ==
    { [err |-> NoError, w |-> [w EXCEPT !.target.exists = TRUE]],
      [err |-> <<"mkdir error">>, w |-> w] }

\* GoModRepositoryImpl.DownloadModule: exec.CommandContext fails at once on a
\* cancelled ctx; otherwise the download fails or fills the module cache
DownloadModule(w, name, version) ==
    {[err |-> <<"failed to download">>, w |-> w]}
    \cup IF w.cancelled THEN {}
         ELSE {[err |-> NoError,
                w   |-> [w EXCEPT !.downloaded = @ \cup {<<name, version>>}]]}

\* GoModRepositoryImpl.GetModulePath: GOMODCACHE/name@version, or an error
GetModulePath(name, version) ==
    { [path |-> <<"GOMODCACHE", name, version>>, err |-> NoError],
      [path |-> <<>>, err |-> <<"failed to get GOMODCACHE">>] }

\* the source trees a module can hold under config.SourcePath
Trees ==
    {[dir |-> FALSE, files |-> {}]}
    \cup {[dir |-> TRUE, files |-> f] : f \in {{}, {"a.proto"}, {"a.proto", "b.proto"}}}

\* the first look at GOMODCACHE/name@version fixes what it holds
Observe(w, sourcePath) ==
    LET key == <<sourcePath[2], sourcePath[3]>>
    IN  IF key \in DOMAIN w.cache THEN {w}
        ELSE {[w EXCEPT !.cache = @ @@ (key :> t)] : t \in Trees}

TreeAt(w, sourcePath) == w.cache[<<sourcePath[2], sourcePath[3]>>]

\* ---------------------------------------------------------------------------
\* ProtoSyncServiceImpl.copySpecificFile
\* outcomes [file, err, calls, w]; file is <<>> for domain.ProtoFile{}
\* ---------------------------------------------------------------------------
\* variant: a missing file is reported without looking for the available ones
copySpecificFileNoListing(w, i, sourcePath, targetPath, fileName) ==
    LET sourceFile == Join(sourcePath, fileName)
        targetFile == Join(targetPath, fileName)
        srcExists  == fileName \in TreeAt(w, sourcePath).files
        c1 == <<Call("FileExists", i, sourceFile, srcExists)>>
    IN  IF ~srcExists
        THEN { [file  |-> <<>>,
                err   |-> <<"specific proto file not found", fileName,
                            "Available proto files", <<>>>>,
                calls |-> c1,
                w     |-> w] }
        ELSE { [file  |-> IF c.err = NoError
                          THEN <<ProtoFile(fileName, targetFile)>> ELSE <<>>,
                err   |-> IF c.err = NoError THEN NoError
                          ELSE <<"failed to copy file">> \o c.err,
                calls |-> Append(c1, Call("CopyFile", i, targetFile, c.err = NoError)),
                w     |-> c.w] : c \in CopyFile(w, fileName) }

\* variant: the file is copied whether or not the destination could be made writable
copySpecificFileIgnoringChmod(w, i, sourcePath, targetPath, fileName) ==
    LET sourceFile == Join(sourcePath, fileName)
        targetFile == Join(targetPath, fileName)
        tree       == TreeAt(w, sourcePath)
        srcExists  == fileName \in tree.files
        dstExists  == w.target.exists /\ fileName \in w.target.files
        c1 == <<Call("FileExists", i, sourceFile, srcExists)>>
        c2 == c1 \o <<Call("FileExists", i, targetFile, dstExists)>>
        copy(cs) ==
            { [file  |-> IF c.err = NoError
                         THEN <<ProtoFile(fileName, targetFile)>> ELSE <<>>,
               err   |-> IF c.err = NoError THEN NoError
                         ELSE <<"failed to copy file">> \o c.err,
               calls |-> Append(cs, Call("CopyFile", i, targetFile, c.err = NoError)),
               w     |-> c.w] : c \in CopyFile(w, fileName) }
    IN  IF ~srcExists
        THEN { [file  |-> <<>>,
                err   |-> <<"specific proto file not found", fileName,
                            "Available proto files",
                            [k \in 1..Len(l.files) |-> l.files[k].Name]>>,
                calls |-> Append(c1, Call("ListFiles", i, sourcePath, l.err = NoError)),
                w     |-> w] : l \in ListFiles(tree.dir, Listing(sourcePath, tree.files)) }
        ELSE IF dstExists
        THEN UNION { copy(Append(c2, Call("MakeWritable", i, targetFile, ok))) :
                     ok \in BOOLEAN }
        ELSE copy(c2)

copySpecificFile(w, i, sourcePath, targetPath, fileName) ==
    LET sourceFile == Join(sourcePath, fileName)
        targetFile == Join(targetPath, fileName)
        tree       == TreeAt(w, sourcePath)
        srcExists  == fileName \in tree.files
        dstExists  == w.target.exists /\ fileName \in w.target.files
        c1 == <<Call("FileExists", i, sourceFile, srcExists)>>
        c2 == c1 \o <<Call("FileExists", i, targetFile, dstExists)>>
        copy(cs) ==
            { [file  |-> IF c.err = NoError
                         THEN <<ProtoFile(fileName, targetFile)>> ELSE <<>>,
               err   |-> IF c.err = NoError THEN NoError
                         ELSE <<"failed to copy file">> \o c.err,
               calls |-> Append(cs, Call("CopyFile", i, targetFile, c.err = NoError)),
               w     |-> c.w] : c \in CopyFile(w, fileName) }
    IN  IF ~srcExists
        THEN { [file  |-> <<>>,
                err   |-> <<"specific proto file not found", fileName,
                            "Available proto files",
                            [k \in 1..Len(l.files) |-> l.files[k].Name]>>,
                calls |-> Append(c1, Call("ListFiles", i, sourcePath, l.err = NoError)),
                w     |-> w] : l \in ListFiles(tree.dir, Listing(sourcePath, tree.files)) }
        ELSE IF dstExists
        THEN { [file  |-> <<>>,
                err   |-> <<"failed to make target file writable", "chmod error">>,
                calls |-> Append(c2, Call("MakeWritable", i, targetFile, FALSE)),
                w     |-> w] }
             \cup copy(Append(c2, Call("MakeWritable", i, targetFile, TRUE)))
        ELSE copy(c2)

\* ---------------------------------------------------------------------------
\* ProtoSyncServiceImpl.copyAllProtoFiles
\* outcomes [files, err, calls, w]
\* ---------------------------------------------------------------------------
\* variant: the loop over the existing files ends at the first failure
MakeWritableLoopStopping(i, existingFiles) ==
    { [k \in 1..n |-> Call("MakeWritable", i, existingFiles[k].Path, k < n)] :
      n \in 1..Len(existingFiles) }
    \cup { [k \in 1..Len(existingFiles) |->
               Call("MakeWritable", i, existingFiles[k].Path, TRUE)] }

\* lines 289-293: MakeWritable on every existing file, failures only warned about
MakeWritableLoop(i, existingFiles) ==
    { [k \in 1..Len(existingFiles) |->
          Call("MakeWritable", i, existingFiles[k].Path, oks[k])] :
      oks \in [1..Len(existingFiles) -> BOOLEAN] }

\* variant: the loop returns after its first file
CopyLoopFirstOnly(w, i, sourceFiles, targetPath, k, copiedFiles, cs) ==
    LET sourceFile == sourceFiles[k]
        targetFile == Join(targetPath, sourceFile.Name)
    IN  { IF c.err # NoError
          THEN [files |-> copiedFiles,
                err   |-> <<"failed to copy", sourceFile.Name>> \o c.err,
                calls |-> Append(cs, Call("CopyFile", i, targetFile, FALSE)),
                w     |-> c.w]
          ELSE [files |-> Append(copiedFiles, ProtoFile(sourceFile.Name, targetFile)),
                err   |-> NoError,
                calls |-> Append(cs, Call("CopyFile", i, targetFile, TRUE)),
                w     |-> c.w]
          : c \in CopyFile(w, sourceFile.Name) }

\* variant: a file that could not be copied is skipped and the loop goes on
RECURSIVE CopyLoopSkipping(_, _, _, _, _, _, _)
CopyLoopSkipping(w, i, sourceFiles, targetPath, k, copiedFiles, cs) ==
    IF k > Len(sourceFiles)
    THEN LET failed == {j \in 1..Len(cs) : cs[j].op = "CopyFile" /\ ~cs[j].ok}
         IN  {[files |-> copiedFiles,
               err   |-> IF failed = {} THEN NoError
                         ELSE <<"failed to copy", cs[Min(failed)].arg[3], "copy error">>,
               calls |-> cs, w |-> w]}
    ELSE
    LET sourceFile == sourceFiles[k]
        targetFile == Join(targetPath, sourceFile.Name)
    IN  UNION {
          CopyLoopSkipping(c.w, i, sourceFiles, targetPath, k + 1,
                           IF c.err = NoError
                           THEN Append(copiedFiles, ProtoFile(sourceFile.Name, targetFile))
                           ELSE copiedFiles,
                           Append(cs, Call("CopyFile", i, targetFile, c.err = NoError)))
          : c \in CopyFile(w, sourceFile.Name) }

\* lines 295-306: the copy loop from the k-th source file on
RECURSIVE CopyLoop(_, _, _, _, _, _, _)
CopyLoop(w, i, sourceFiles, targetPath, k, copiedFiles, cs) ==
    IF k > Len(sourceFiles)
    THEN {[files |-> copiedFiles, err |-> NoError, calls |-> cs, w |-> w]}
    ELSE
    LET sourceFile == sourceFiles[k]
        targetFile == Join(targetPath, sourceFile.Name)
    IN  UNION {
          IF c.err # NoError
          THEN {[files |-> copiedFiles,
                 err   |-> <<"failed to copy", sourceFile.Name>> \o c.err,
                 calls |-> Append(cs, Call("CopyFile", i, targetFile, FALSE)),
                 w     |-> c.w]}
          ELSE CopyLoop(c.w, i, sourceFiles, targetPath, k + 1,
                        Append(copiedFiles, ProtoFile(sourceFile.Name, targetFile)),
                        Append(cs, Call("CopyFile", i, targetFile, TRUE)))
          : c \in CopyFile(w, sourceFile.Name) }

\* variant: a source subdirectory without schema files is an error
copyAllProtoFilesRequiringFiles(w, i, sourcePath, targetPath) ==
    LET tree == TreeAt(w, sourcePath)
    IN  UNION {
          LET c1 == <<Call("ListFiles", i, sourcePath, l.err = NoError)>>
          IN  IF l.err # NoError
              THEN {[files |-> <<>>, err |-> <<"failed to list proto files">> \o l.err,
                     calls |-> c1, w |-> w]}
              ELSE IF Len(l.files) = 0
              THEN {[files |-> <<>>, err |-> <<"no proto files found">>,
                     calls |-> c1, w |-> w]}
              ELSE UNION {
                     UNION {
                       CopyLoop(w, i, l.files, targetPath, 1, <<>>,
                                Append(c1, Call("ListFiles", i, targetPath,
                                                e.err = NoError)) \o mw)
                       : mw \in MakeWritableLoop(i, e.files) }
                     : e \in ListFiles(w.target.exists,
                                      Listing(targetPath, w.target.files)) }
          : l \in ListFiles(tree.dir, Listing(sourcePath, tree.files)) }

copyAllProtoFiles(w, i, sourcePath, targetPath) ==
    LET tree == TreeAt(w, sourcePath)
    IN  UNION {
          LET c1 == <<Call("ListFiles", i, sourcePath, l.err = NoError)>>
          IN  IF l.err # NoError
              THEN {[files |-> <<>>, err |-> <<"failed to list proto files">> \o l.err,
                     calls |-> c1, w |-> w]}
              ELSE IF Len(l.files) = 0
              THEN {[files |-> <<>>, err |-> NoError, calls |-> c1, w |-> w]}
              ELSE UNION {
                     UNION {
                       CopyLoop(w, i, l.files, targetPath, 1, <<>>,
                                Append(c1, Call("ListFiles", i, targetPath,
                                                e.err = NoError)) \o mw)
                       : mw \in MakeWritableLoop(i, e.files) }
                     : e \in ListFiles(w.target.exists,
                                      Listing(targetPath, w.target.files)) }
          : l \in ListFiles(tree.dir, Listing(sourcePath, tree.files)) }

\* ---------------------------------------------------------------------------
\* ProtoSyncServiceImpl.dryRunRepository and processRepository
\* outcomes [result, calls, w, preview]; result is a domain.SyncResult
\* ---------------------------------------------------------------------------
\* variant: every outcome starts out, and stays, successful
SyncResultOptimistic(repo, files, success, err) ==
    [Repository |-> repo, FilesUpdated |-> files, Success |-> TRUE, Error |-> err]

SyncResult(repo, files, success, err) ==
    [Repository |-> repo, FilesUpdated |-> files, Success |-> success, Error |-> err]

TargetDir(cfg) == <<"target", cfg.TargetPath>>

\* variant: the preview reports an unresolved module path as a failed outcome
dryRunRepositoryFailing(w, i, repo, cfg) ==
    { [result  |-> SyncResult(repo, <<>>, FALSE, <<"failed to get module path">>),
       calls   |-> <<Call("GetModulePath", i, <<repo.Name, repo.Version>>, FALSE)>>,
       w       |-> w,
       preview |-> <<"Error getting module path">>] }

\* variant: the preview fetches the module before describing it
dryRunRepositoryDownloading(w, i, repo, cfg) ==
    { [result  |-> SyncResult(repo, <<>>, TRUE, NoError),
       calls   |-> <<Call("DownloadModule", i, <<repo.Name, repo.Version>>, TRUE)>>,
       w       |-> [w EXCEPT !.downloaded = @ \cup {<<repo.Name, repo.Version>>}],
       preview |-> <<"Would download module">>] }

\* variant: the preview names the specific file without looking for it
dryRunRepositoryBlind(w, i, repo, cfg) ==
    LET result == SyncResult(repo, <<>>, TRUE, NoError)
        out(pv, cs, ww) == [result |-> result, calls |-> cs, w |-> ww, preview |-> pv]
    IN  UNION {
          LET c1 == <<Call("GetModulePath", i, <<repo.Name, repo.Version>>,
                           m.err = NoError)>>
          IN  IF m.err # NoError
              THEN {out(<<"Error getting module path">>, c1, w)}
              ELSE
              LET sourcePath == Join(m.path, cfg.SourcePath)
              IN  UNION {
                    LET tree == TreeAt(o, sourcePath)
                        c2   == Append(c1, Call("FileExists", i, sourcePath, tree.dir))
                    IN  IF ~tree.dir
                        THEN {out(<<"Source directory does not exist yet (would be created by download)">>,
                                  c2, o)}
                        ELSE IF cfg.SpecificFile # ""
                        THEN {out(<<"Specific proto file that would be copied",
                                    cfg.SpecificFile>>, c2, o)}
                        ELSE { out(IF l.err # NoError
                                   THEN <<"Proto files that would be copied",
                                          <<"Error listing files">>>>
                                   ELSE <<"Proto files that would be copied",
                                          [k \in 1..Len(l.files) |-> l.files[k].Name]>>,
                                   Append(c2, Call("ListFiles", i, sourcePath,
                                                   l.err = NoError)),
                                   o)
                               : l \in ListFiles(tree.dir,
                                                 Listing(sourcePath, tree.files)) }
                    : o \in Observe(w, sourcePath) }
          : m \in GetModulePath(repo.Name, repo.Version) }

dryRunRepository(w, i, repo, cfg) ==
    LET result == SyncResult(repo, <<>>, TRUE, NoError)
        out(pv, cs, ww) == [result |-> result, calls |-> cs, w |-> ww, preview |-> pv]
    IN  UNION {
          LET c1 == <<Call("GetModulePath", i, <<repo.Name, repo.Version>>,
                           m.err = NoError)>>
          IN  IF m.err # NoError
              THEN {out(<<"Error getting module path">>, c1, w)}
              ELSE
              LET sourcePath == Join(m.path, cfg.SourcePath)
              IN  UNION {
                    LET tree == TreeAt(o, sourcePath)
                        c2   == Append(c1, Call("FileExists", i, sourcePath, tree.dir))
                    IN  IF ~tree.dir
                        THEN {out(<<"Source directory does not exist yet (would be created by download)">>,
                                  c2, o)}
                        ELSE IF cfg.SpecificFile # ""
                        THEN LET there == cfg.SpecificFile \in tree.files
                                 c3 == Append(c2, Call("FileExists", i,
                                                  Join(sourcePath, cfg.SpecificFile), there))
                             IN  IF there
                                 THEN {out(<<"Specific proto file that would be copied",
                                             cfg.SpecificFile>>, c3, o)}
                                 ELSE {out(<<"Specific proto file that would be copied",
                                             cfg.SpecificFile, "NOT FOUND - would fail">>,
                                           c3, o)}
                        ELSE { out(IF l.err # NoError
                                   THEN <<"Proto files that would be copied",
                                          <<"Error listing files">>>>
                                   ELSE <<"Proto files that would be copied",
                                          [k \in 1..Len(l.files) |-> l.files[k].Name]>>,
                                   Append(c2, Call("ListFiles", i, sourcePath,
                                                   l.err = NoError)),
                                   o)
                               : l \in ListFiles(tree.dir,
                                                 Listing(sourcePath, tree.files)) }
                    : o \in Observe(w, sourcePath) }
          : m \in GetModulePath(repo.Name, repo.Version) }

\* variant: a failed bulk copy reports the files copied before the failure
copyProtoFilesKeepingPartial(w, i, repo, cfg, sourcePath, cs) ==
    IF cfg.SpecificFile # ""
    THEN { IF c.err # NoError
           THEN [result  |-> SyncResult(repo, <<>>, FALSE, c.err),
                 calls   |-> cs \o c.calls, w |-> c.w, preview |-> <<>>]
           ELSE [result  |-> SyncResult(repo, c.file, TRUE, NoError),
                 calls   |-> cs \o c.calls, w |-> c.w, preview |-> <<>>]
           : c \in copySpecificFile(w, i, sourcePath, TargetDir(cfg), cfg.SpecificFile) }
    ELSE { [result  |-> SyncResult(repo, c.files, c.err = NoError, c.err),
            calls   |-> cs \o c.calls, w |-> c.w, preview |-> <<>>]
           : c \in copyAllProtoFiles(w, i, sourcePath, TargetDir(cfg)) }

\* lines 172-190: copy the proto files, cs being the calls made so far
copyProtoFiles(w, i, repo, cfg, sourcePath, cs) ==
    IF cfg.SpecificFile # ""
    THEN { IF c.err # NoError
           THEN [result  |-> SyncResult(repo, <<>>, FALSE, c.err),
                 calls   |-> cs \o c.calls, w |-> c.w, preview |-> <<>>]
           ELSE [result  |-> SyncResult(repo, c.file, TRUE, NoError),
                 calls   |-> cs \o c.calls, w |-> c.w, preview |-> <<>>]
           : c \in copySpecificFile(w, i, sourcePath, TargetDir(cfg), cfg.SpecificFile) }
    ELSE { IF c.err # NoError
           THEN [result  |-> SyncResult(repo, <<>>, FALSE, c.err),
                 calls   |-> cs \o c.calls, w |-> c.w, preview |-> <<>>]
           ELSE [result  |-> SyncResult(repo, c.files, TRUE, NoError),
                 calls   |-> cs \o c.calls, w |-> c.w, preview |-> <<>>]
           : c \in copyAllProtoFiles(w, i, sourcePath, TargetDir(cfg)) }

\* variant: a target directory that could not be created is copied into anyway
checkDirectoriesIgnoringMkdir(w, i, repo, cfg, sourcePath, cs) ==
    LET fail(e, cc, ww) == [result  |-> SyncResult(repo, <<>>, FALSE, e),
                            calls   |-> cc, w |-> ww, preview |-> <<>>]
    IN  UNION {
          LET tree == TreeAt(o, sourcePath)
              c1   == Append(cs, Call("FileExists", i, sourcePath, tree.dir))
              c2   == Append(c1, Call("FileExists", i, TargetDir(cfg), o.target.exists))
          IN  IF ~tree.dir
              THEN {fail(<<"source directory not found", sourcePath>>, c1, o)}
              ELSE IF ~o.target.exists
              THEN UNION {
                     copyProtoFiles(d.w, i, repo, cfg, sourcePath,
                                    Append(c2, Call("CreateDir", i, TargetDir(cfg),
                                                    d.err = NoError)))
                     : d \in CreateDir(o) }
              ELSE copyProtoFiles(o, i, repo, cfg, sourcePath, c2)
          : o \in Observe(w, sourcePath) }

\* lines 157-170: the source directory must exist, the target directory is
\* created when missing
checkDirectories(w, i, repo, cfg, sourcePath, cs) ==
    LET fail(e, cc, ww) == [result  |-> SyncResult(repo, <<>>, FALSE, e),
                            calls   |-> cc, w |-> ww, preview |-> <<>>]
    IN  UNION {
          LET tree == TreeAt(o, sourcePath)
              c1   == Append(cs, Call("FileExists", i, sourcePath, tree.dir))
              c2   == Append(c1, Call("FileExists", i, TargetDir(cfg), o.target.exists))
          IN  IF ~tree.dir
              THEN {fail(<<"source directory not found", sourcePath>>, c1, o)}
              ELSE IF ~o.target.exists
              THEN UNION {
                     LET c3 == Append(c2, Call("CreateDir", i, TargetDir(cfg),
                                               d.err = NoError))
                     IN  IF d.err # NoError
                         THEN {fail(<<"failed to create target directory">> \o d.err,
                                    c3, d.w)}
                         ELSE copyProtoFiles(d.w, i, repo, cfg, sourcePath, c3)
                     : d \in CreateDir(o) }
              ELSE copyProtoFiles(o, i, repo, cfg, sourcePath, c2)
          : o \in Observe(w, sourcePath) }

processRepository(w, i, repo, cfg) ==
    LET fail(e, cc, ww) == [result  |-> SyncResult(repo, <<>>, FALSE, e),
                            calls   |-> cc, w |-> ww, preview |-> <<>>]
        key == <<repo.Name, repo.Version>>
    IN  IF cfg.DryRun
        THEN dryRunRepository(w, i, repo, cfg)
        ELSE UNION {
               LET c1 == <<Call("DownloadModule", i, key, d.err = NoError)>>
               IN  IF d.err # NoError
                   THEN {fail(<<"failed to download module">> \o d.err, c1, d.w)}
                   ELSE UNION {
                          LET c2 == Append(c1, Call("GetModulePath", i, key,
                                                    m.err = NoError))
                          IN  IF m.err # NoError
                              THEN {fail(<<"failed to get module path">> \o m.err,
                                         c2, d.w)}
                              ELSE checkDirectories(d.w, i, repo, cfg,
                                                    Join(m.path, cfg.SourcePath), c2)
                          : m \in GetModulePath(repo.Name, repo.Version) }
               : d \in DownloadModule(w, repo.Name, repo.Version) }

\* ---------------------------------------------------------------------------
\* ProtoSyncServiceImpl.ValidateConfig: [err, calls]
\* ---------------------------------------------------------------------------
\* variant: the source path is not checked
ValidateConfigNoSourcePath(cfg, by, gm) ==
    LET e1 == <<Call("FileExists", 0, <<cfg.BufYamlPath>>, by.exists)>>
        e2 == Append(e1, Call("FileExists", 0, <<cfg.GoModPath>>, gm.exists))
    IN  IF cfg.BufYamlPath = ""
        THEN [err |-> <<"buf.yaml path is required">>, calls |-> <<>>]
        ELSE IF cfg.GoModPath = ""
        THEN [err |-> <<"go.mod path is required">>, calls |-> <<>>]
        ELSE IF ~by.exists
        THEN [err |-> <<"buf.yaml file not found at", cfg.BufYamlPath>>, calls |-> e1]
        ELSE IF Len(cfg.Repositories) = 0
        THEN IF ~gm.exists
             THEN [err |-> <<"go.mod file not found at", cfg.GoModPath>>, calls |-> e2]
             ELSE [err |-> NoError, calls |-> e2]
        ELSE [err |-> NoError, calls |-> e1]

\* variant: the manifest must exist even when sources are given
ValidateConfigManifestAlways(cfg, by, gm) ==
    LET e1 == <<Call("FileExists", 0, <<cfg.BufYamlPath>>, by.exists)>>
        e2 == Append(e1, Call("FileExists", 0, <<cfg.GoModPath>>, gm.exists))
    IN  IF cfg.BufYamlPath = ""
        THEN [err |-> <<"buf.yaml path is required">>, calls |-> <<>>]
        ELSE IF cfg.GoModPath = ""
        THEN [err |-> <<"go.mod path is required">>, calls |-> <<>>]
        ELSE IF cfg.SourcePath = ""
        THEN [err |-> <<"source path is required">>, calls |-> <<>>]
        ELSE IF ~by.exists
        THEN [err |-> <<"buf.yaml file not found at", cfg.BufYamlPath>>, calls |-> e1]
        ELSE IF ~gm.exists
        THEN [err |-> <<"go.mod file not found at", cfg.GoModPath>>, calls |-> e2]
        ELSE [err |-> NoError, calls |-> e2]

ValidateConfig(cfg, by, gm) ==
    LET e1 == <<Call("FileExists", 0, <<cfg.BufYamlPath>>, by.exists)>>
        e2 == Append(e1, Call("FileExists", 0, <<cfg.GoModPath>>, gm.exists))
    IN  IF cfg.BufYamlPath = ""
        THEN [err |-> <<"buf.yaml path is required">>, calls |-> <<>>]
        ELSE IF cfg.GoModPath = ""
        THEN [err |-> <<"go.mod path is required">>, calls |-> <<>>]
        ELSE IF cfg.SourcePath = ""
        THEN [err |-> <<"source path is required">>, calls |-> <<>>]
        ELSE IF ~by.exists
        THEN [err |-> <<"buf.yaml file not found at", cfg.BufYamlPath>>, calls |-> e1]
        ELSE IF Len(cfg.Repositories) = 0
        THEN IF ~gm.exists
             THEN [err |-> <<"go.mod file not found at", cfg.GoModPath>>, calls |-> e2]
             ELSE [err |-> NoError, calls |-> e2]
        ELSE [err |-> NoError, calls |-> e1]

\* ---------------------------------------------------------------------------
\* BufRepositoryImpl.ParseBufYaml: [err, info, calls]; info is <<>> (nil) or
\* <<[Name, Path]>>
\* ---------------------------------------------------------------------------
\* variant: the first module with a path is taken
ParseBufYamlFirstWithPath(by, bufYamlPath) ==
    LET e1 == <<Call("FileExists", 0, <<bufYamlPath>>, by.exists)>>
        e2 == Append(e1, Call("ReadFile", 0, <<bufYamlPath>>, by.readOk))
        withPath == SelectSeq(by.modules, LAMBDA m : m.Path # "")
    IN  IF ~by.exists
        THEN [err |-> <<"buf.yaml file not found at", bufYamlPath>>,
              info |-> <<>>, calls |-> e1]
        ELSE IF ~by.readOk
        THEN [err |-> <<"failed to read buf.yaml file", "os error">>,
              info |-> <<>>, calls |-> e2]
        ELSE IF ~by.yamlOk
        THEN [err |-> <<"failed to parse buf.yaml", "yaml error">>,
              info |-> <<>>, calls |-> e2]
        ELSE IF Len(by.modules) = 0
        THEN [err |-> <<"no modules found in", bufYamlPath>>,
              info |-> <<>>, calls |-> e2]
        ELSE IF withPath = <<>>
        THEN [err |-> <<"module path is empty in", bufYamlPath>>,
              info |-> <<>>, calls |-> e2]
        ELSE [err |-> NoError,
              info |-> <<[Name |-> withPath[1].Name, Path |-> withPath[1].Path]>>,
              calls |-> e2]

ParseBufYaml(by, bufYamlPath) ==
    LET e1 == <<Call("FileExists", 0, <<bufYamlPath>>, by.exists)>>
        e2 == Append(e1, Call("ReadFile", 0, <<bufYamlPath>>, by.readOk))
    IN  IF ~by.exists
        THEN [err |-> <<"buf.yaml file not found at", bufYamlPath>>,
              info |-> <<>>, calls |-> e1]
        ELSE IF ~by.readOk
        THEN [err |-> <<"failed to read buf.yaml file", "os error">>,
              info |-> <<>>, calls |-> e2]
        ELSE IF ~by.yamlOk
        THEN [err |-> <<"failed to parse buf.yaml", "yaml error">>,
              info |-> <<>>, calls |-> e2]
        ELSE IF Len(by.modules) = 0
        THEN [err |-> <<"no modules found in", bufYamlPath>>,
              info |-> <<>>, calls |-> e2]
        ELSE IF by.modules[1].Path = ""
        THEN [err |-> <<"module path is empty in", bufYamlPath>>,
              info |-> <<>>, calls |-> e2]
        ELSE [err |-> NoError,
              info |-> <<[Name |-> by.modules[1].Name, Path |-> by.modules[1].Path]>>,
              calls |-> e2]

\* ---------------------------------------------------------------------------
\* ProtoSyncServiceImpl.Sync
\* ---------------------------------------------------------------------------
\* variant: the override skips the first source
OverrideVersionButFirst(repos, specifiedVersion) ==
    IF specifiedVersion # <<>>
    THEN [k \in 1..Len(repos) |->
             IF k = 1 THEN repos[k] ELSE [repos[k] EXCEPT !.Version = specifiedVersion]]
    ELSE repos

\* variant: a source without a version gets the latest one, as in the shell
\* script this program replaces
OverrideVersionResolvingLatest(repos, specifiedVersion) ==
    [k \in 1..Len(repos) |->
        IF specifiedVersion # <<>> THEN [repos[k] EXCEPT !.Version = specifiedVersion]
        ELSE IF repos[k].Version = <<>> THEN [repos[k] EXCEPT !.Version = <<"latest">>]
        ELSE repos[k]]

\* lines 88-93
OverrideVersion(repos, specifiedVersion) ==
    IF specifiedVersion # <<>>
    THEN [k \in 1..Len(repos) |-> [repos[k] EXCEPT !.Version = specifiedVersion]]
    ELSE repos

\* variant: the truncation keeps the last source
SingleRepoOnlyLast(repos, singleRepo) ==
    IF singleRepo /\ Len(repos) > 1 THEN SubSeq(repos, Len(repos), Len(repos)) ELSE repos

\* lines 95-99
SingleRepoOnly(repos, singleRepo) ==
    IF singleRepo /\ Len(repos) > 1 THEN SubSeq(repos, 1, 1) ELSE repos

World == [target |-> target, cache |-> cache, downloaded |-> downloaded,
          cancelled |-> cancelled]

\* return nil, err
ReturnError(err) ==
    /\ pc' = "Failed"
    /\ ret' = <<[results |-> <<>>, err |-> err]>>

\* variant: the validation error is dropped
SyncValidateLenient ==
    /\ pc = "Validating"
    /\ calls' = calls \o ValidateConfig(config, bufYaml, goMod).calls
    /\ pc' = "ResolvingTargets"
    /\ UNCHANGED <<listResult, goMod, parseOut, bufYaml, config, config0, target, target0, cache,
                   downloaded, cancelled, startedAtCancel, resolved, repositories,
                   results, previews, banner, ret>>

\* lines 64-66
SyncValidate ==
    /\ pc = "Validating"
    /\ LET v == ValidateConfig(config, bufYaml, goMod)
       IN  /\ calls' = calls \o v.calls
           /\ IF v.err # NoError
              THEN ReturnError(<<"invalid configuration">> \o v.err)
              ELSE pc' = "ResolvingTargets" /\ ret' = ret
    /\ UNCHANGED <<listResult, goMod, parseOut, bufYaml, config, config0, target, target0, cache,
                   downloaded, cancelled, startedAtCancel, resolved, repositories,
                   results, previews, banner>>

\* variant: a target path given by the caller is kept
SyncResolveTargetKeepingGiven ==
    /\ pc = "ResolvingTargets"
    /\ LET m == ParseBufYaml(bufYaml, config.BufYamlPath)
       IN  /\ calls' = calls \o m.calls
           /\ IF m.err # NoError
              THEN /\ ReturnError(<<"failed to parse buf.yaml">> \o m.err)
                   /\ config' = config
              ELSE /\ config' = IF config.TargetPath = ""
                                THEN [config EXCEPT !.TargetPath = m.info[1].Path]
                                ELSE config
                   /\ pc' = "ResolvingSources"
                   /\ ret' = ret
    /\ UNCHANGED <<listResult, goMod, parseOut, bufYaml, config0, target, target0, cache,
                   downloaded, cancelled, startedAtCancel, resolved, repositories,
                   results, previews, banner>>

\* lines 68-75
SyncResolveTarget ==
    /\ pc = "ResolvingTargets"
    /\ LET m == ParseBufYaml(bufYaml, config.BufYamlPath)
       IN  /\ calls' = calls \o m.calls
           /\ IF m.err # NoError
              THEN /\ ReturnError(<<"failed to parse buf.yaml">> \o m.err)
                   /\ config' = config
              ELSE /\ config' = [config EXCEPT !.TargetPath = m.info[1].Path]
                   /\ pc' = "ResolvingSources"
                   /\ ret' = ret
    /\ UNCHANGED <<listResult, goMod, parseOut, bufYaml, config0, target, target0, cache,
                   downloaded, cancelled, startedAtCancel, resolved, repositories,
                   results, previews, banner>>

\* variant: the manifest is parsed whether or not the configuration names sources
SyncResolveSourcesAlwaysParsing ==
    /\ pc = "ResolvingSources"
    /\ LET g     == ParseProtobufLibraries(goMod)
           given == Len(config.Repositories) # 0
           over  == OverrideVersion(IF given THEN config.Repositories
                                    ELSE IF g.Err = NoError THEN g.Info[1].Repositories
                                    ELSE <<>>,
                                    config.SpecifiedVersion)
       IN  /\ calls' = Append(calls, Call("ParseProtobufLibraries", 0,
                                          <<config.GoModPath>>, g.Err = NoError))
           /\ IF ~given /\ g.Err # NoError
              THEN /\ ReturnError(<<"failed to parse go.mod">> \o g.Err)
                   /\ UNCHANGED <<config, resolved, repositories>>
              ELSE /\ config' = IF given THEN [config EXCEPT !.Repositories = over]
                                ELSE config
                   /\ resolved' = over
                   /\ repositories' = SingleRepoOnly(over, config.SingleRepo)
                   /\ pc' = "Processing"
                   /\ ret' = ret
    /\ UNCHANGED <<listResult, goMod, parseOut, bufYaml, config0, target, target0, cache,
                   downloaded, cancelled, startedAtCancel, results, previews, banner>>

\* variant: the truncation to one source is written back to the configuration
SyncResolveSourcesTruncatingConfig ==
    /\ pc = "ResolvingSources"
    /\ IF Len(config.Repositories) # 0
       THEN LET over == OverrideVersion(config.Repositories, config.SpecifiedVersion)
            IN  /\ calls' = calls
                /\ config' = [config EXCEPT
                                 !.Repositories = SingleRepoOnly(over, config.SingleRepo)]
                /\ resolved' = over
                /\ repositories' = SingleRepoOnly(over, config.SingleRepo)
                /\ pc' = "Processing"
                /\ ret' = ret
       ELSE LET g == ParseProtobufLibraries(goMod)
            IN  /\ calls' = Append(calls, Call("ParseProtobufLibraries", 0,
                                               <<config.GoModPath>>, g.Err = NoError))
                /\ config' = config
                /\ IF g.Err # NoError
                   THEN /\ ReturnError(<<"failed to parse go.mod">> \o g.Err)
                        /\ UNCHANGED <<resolved, repositories>>
                   ELSE LET over == OverrideVersion(g.Info[1].Repositories,
                                                    config.SpecifiedVersion)
                        IN  /\ resolved' = over
                            /\ repositories' = SingleRepoOnly(over, config.SingleRepo)
                            /\ pc' = "Processing"
                            /\ ret' = ret
    /\ UNCHANGED <<listResult, goMod, parseOut, bufYaml, config0, target, target0, cache,
                   downloaded, cancelled, startedAtCancel, results, previews, banner>>

\* lines 77-101.  `repositories` shares its backing array with
\* config.Repositories when that one is not empty, so the override at line 91
\* writes through to the configuration.
SyncResolveSources ==
    /\ pc = "ResolvingSources"
    /\ IF Len(config.Repositories) # 0
       THEN LET over == OverrideVersion(config.Repositories, config.SpecifiedVersion)
            IN  /\ calls' = calls
                /\ config' = [config EXCEPT !.Repositories = over]
                /\ resolved' = over
                /\ repositories' = SingleRepoOnly(over, config.SingleRepo)
                /\ pc' = "Processing"
                /\ ret' = ret
       ELSE LET g == ParseProtobufLibraries(goMod)
            IN  /\ calls' = Append(calls, Call("ParseProtobufLibraries", 0,
                                               <<config.GoModPath>>, g.Err = NoError))
                /\ config' = config
                /\ IF g.Err # NoError
                   THEN /\ ReturnError(<<"failed to parse go.mod">> \o g.Err)
                        /\ UNCHANGED <<resolved, repositories>>
                   ELSE LET over == OverrideVersion(g.Info[1].Repositories,
                                                    config.SpecifiedVersion)
                        IN  /\ resolved' = over
                            /\ repositories' = SingleRepoOnly(over, config.SingleRepo)
                            /\ pc' = "Processing"
                            /\ ret' = ret
    /\ UNCHANGED <<listResult, goMod, parseOut, bufYaml, config0, target, target0, cache,
                   downloaded, cancelled, startedAtCancel, results, previews, banner>>

\* variant: the loop returns at the first failed source
LoopBodyStopping(o) ==
    /\ results' = Append(results, o.result)
    /\ previews' = Append(previews, o.preview)
    /\ calls' = calls \o o.calls
    /\ target' = o.w.target
    /\ cache' = o.w.cache
    /\ downloaded' = o.w.downloaded
    /\ IF o.result.Error # NoError
       THEN pc' = "Done" /\ ret' = <<[results |-> results', err |-> NoError]>>
       ELSE pc' = pc /\ ret' = ret

\* variant: the newest outcome is put in front
LoopBodyPrepending(o) ==
    /\ results' = <<o.result>> \o results
    /\ previews' = Append(previews, o.preview)
    /\ calls' = calls \o o.calls
    /\ target' = o.w.target
    /\ cache' = o.w.cache
    /\ downloaded' = o.w.downloaded
    /\ pc' = pc
    /\ ret' = ret

\* variant: a source whose first attempt failed is tried once more
LoopBodyRetrying(o) ==
    /\ calls' = calls \o o.calls
    /\ target' = o.w.target
    /\ cache' = o.w.cache
    /\ downloaded' = o.w.downloaded
    /\ pc' = pc
    /\ ret' = ret
    /\ IF /\ o.result.Error # NoError
          /\ \A j \in 1..Len(calls) : calls[j].src # Len(results) + 1
       THEN results' = results /\ previews' = previews
       ELSE /\ results' = Append(results, o.result)
            /\ previews' = Append(previews, o.preview)

\* variant: what a failed source did to the target directory is undone
LoopBodyRollingBack(o) ==
    /\ results' = Append(results, o.result)
    /\ previews' = Append(previews, o.preview)
    /\ calls' = calls \o o.calls
    /\ target' = IF o.result.Error # NoError THEN target ELSE o.w.target
    /\ cache' = o.w.cache
    /\ downloaded' = o.w.downloaded
    /\ pc' = pc
    /\ ret' = ret

\* lines 105-110: one pass of the loop, o being what processRepository did
LoopBody(o) ==
    /\ results' = Append(results, o.result)
    /\ previews' = Append(previews, o.preview)
    /\ calls' = calls \o o.calls
    /\ target' = o.w.target
    /\ cache' = o.w.cache
    /\ downloaded' = o.w.downloaded
    /\ pc' = pc
    /\ ret' = ret

\* lines 104-111
SyncProcess ==
    /\ pc = "Processing"
    /\ Len(results) < Len(repositories)
    /\ \E o \in processRepository(World, Len(results) + 1,
                                  repositories[Len(results) + 1], config) :
          LoopBody(o)
    /\ UNCHANGED <<listResult, goMod, parseOut, bufYaml, config, config0, target0, cancelled,
                   startedAtCancel, resolved, repositories, banner>>

\* variant: a run without outcomes is not reported as a success
SummaryRequiringOutcomes(cfg, rs) ==
    LET successCount == Cardinality({k \in 1..Len(rs) : rs[k].Success})
    IN  IF cfg.DryRun THEN <<>>
        ELSE IF rs # <<>> /\ successCount = Len(rs)
        THEN <<"Success", "All proto files updated successfully!">>
        ELSE <<"Warning", successCount, Len(rs)>>

\* lines 113-127: the summary the logger gets, <<>> in dry-run mode
Summary(cfg, rs) ==
    LET successCount == Cardinality({k \in 1..Len(rs) : rs[k].Success})
    IN  IF cfg.DryRun THEN <<>>
        ELSE IF successCount = Len(rs)
        THEN <<"Success", "All proto files updated successfully!">>
        ELSE <<"Warning", successCount, Len(rs)>>

\* variant: the summary is made as soon as one source has been processed
SyncAggregateEarly ==
    /\ pc = "Processing"
    /\ Len(results) = Len(repositories) \/ Len(results) = 1
    /\ banner' = Summary(config, results)
    /\ ret' = <<[results |-> results, err |-> NoError]>>
    /\ pc' = "Done"
    /\ UNCHANGED <<listResult, goMod, parseOut, bufYaml, config, config0, target, target0, cache,
                   downloaded, cancelled, startedAtCancel, resolved, repositories,
                   results, calls, previews>>

\* lines 113-129
SyncAggregate ==
    /\ pc = "Processing"
    /\ Len(results) = Len(repositories)
    /\ banner' = Summary(config, results)
    /\ ret' = <<[results |-> results, err |-> NoError]>>
    /\ pc' = "Done"
    /\ UNCHANGED <<listResult, goMod, parseOut, bufYaml, config, config0, target, target0, cache,
                   downloaded, cancelled, startedAtCancel, resolved, repositories,
                   results, calls, previews>>

\* main, lines 20-25: a SIGINT or SIGTERM cancels ctx while Sync runs.  Once the
\* last source has been processed nothing reads ctx any more, so the model
\* takes the step only while a source is still to come.
Cancel ==
    /\ pc \in {"Validating", "ResolvingTargets", "ResolvingSources", "Processing"}
    /\ pc = "Processing" => Len(results) < Len(repositories)
    /\ ~cancelled
    /\ cancelled' = TRUE
    /\ startedAtCancel' = Len(results)
    /\ UNCHANGED <<listResult, goMod, parseOut, bufYaml, config, config0, target, target0, cache,
                   downloaded, pc, resolved, repositories, results, calls, previews,
                   banner, ret>>

\* ---------------------------------------------------------------------------
\* Inputs
\* ---------------------------------------------------------------------------
MarkerLine == <<"//", SP, "Protobuf", SP, "libraries">>
DirectiveX ==
    <<"replace", SP, "local-x", SP, "v0.0.0", SP, "=>", SP,
      "github.com/", "acme/x", SP, "v1.2.3">>
DirectiveY ==
    <<"replace", SP, "local-y", SP, "v0.0.0", SP, "=>", SP, "acme/y", SP, "v0.8.5">>

\* a repository as CLIHandler.addFlags builds it from --repo (no version), and
\* one a caller of the API built with a version
RepoX == [Name |-> <<"github.com/", "acme/x">>, Version |-> <<"v1.2.3">>,
          URL |-> <<"https://", "github.com/", "acme/x">>]
RepoY == [Name |-> <<"github.com/", "acme/y">>, Version |-> <<>>,
          URL |-> <<"https://", "github.com/", "acme/y">>]

BoundedSeq(S, n) == UNION {[1..k -> S] : k \in 0..n}

\* the explicit source lists: X, Y, X, ... up to MaxRepos sources, Y alone, and
\* a list naming Y twice
RepoSeqs ==
    {[k \in 1..n |-> IF k % 2 = 1 THEN RepoX ELSE RepoY] : n \in 0..MaxRepos}
    \cup {<<RepoY>>, <<RepoY, RepoY>>}

Configs ==
    [ Repositories     : RepoSeqs,
      SourcePath       : {"", "schemas/api/v1"},
      TargetPath       : {"", "stale"},
      BufYamlPath      : {"", "buf.yaml"},
      GoModPath        : {"", "../go.mod"},
      SpecificFile     : {"", "a.proto", "c.proto"},
      DryRun           : BOOLEAN,
      SingleRepo       : BOOLEAN,
      SpecifiedVersion : {<<>>, <<"v2.0.0">>} ]

WithoutTargetPath(cfg) ==
    [f \in DOMAIN cfg \ {"TargetPath"} |-> cfg[f]]

BufYamlFiles ==
    { [exists |-> FALSE, readOk |-> FALSE, yamlOk |-> FALSE, modules |-> <<>>],
      [exists |-> TRUE,  readOk |-> FALSE, yamlOk |-> FALSE, modules |-> <<>>],
      [exists |-> TRUE,  readOk |-> TRUE,  yamlOk |-> FALSE, modules |-> <<>>],
      [exists |-> TRUE,  readOk |-> TRUE,  yamlOk |-> TRUE,  modules |-> <<>>],
      [exists |-> TRUE,  readOk |-> TRUE,  yamlOk |-> TRUE,
       modules |-> <<[Name |-> "", Path |-> ""], [Name |-> "", Path |-> "out"]>>],
      [exists |-> TRUE,  readOk |-> TRUE,  yamlOk |-> TRUE,
       modules |-> <<[Name |-> "m", Path |-> "out"], [Name |-> "", Path |-> "alt"]>>] }

GoModFile(lines, errAt) == [exists |-> TRUE, lines |-> lines, errAt |-> errAt]
NoGoModFile == [exists |-> FALSE, lines |-> <<>>, errAt |-> 0]

\* the manifests Sync is run against
SyncGoMods ==
    { NoGoModFile,
      GoModFile(<<DirectiveX>>, 0),
      GoModFile(<<MarkerLine>>, 0),
      GoModFile(<<MarkerLine, DirectiveX, DirectiveY>>, 0) }

Targets ==
    { [exists |-> FALSE, files |-> {}],
      [exists |-> TRUE,  files |-> {"a.proto"}] }

\* Sync has not touched anything yet
Untouched ==
    /\ config0 = WithoutTargetPath(config)
    /\ target0 = target
    /\ cache = <<>>
    /\ downloaded = {}
    /\ cancelled = FALSE
    /\ startedAtCancel = -1
    /\ resolved = <<>>
    /\ repositories = <<>>
    /\ results = <<>>
    /\ calls = <<>>
    /\ previews = <<>>
    /\ banner = <<>>
    /\ ret = <<>>
    /\ parseOut = <<>>
    /\ listResult = <<>>

\* the manifests next to a configuration that names its sources: none, and for
\* the lists of one source also a manifest whose section names two sources
GoModsBeside(repos) ==
    IF Len(repos) = 1
    THEN {NoGoModFile, GoModFile(<<MarkerLine, DirectiveX, DirectiveY>>, 0)}
    ELSE {NoGoModFile}

\* a caller hands Sync a configuration; the manifest is only read when the
\* configuration names no source
Init ==
    /\ config \in Configs
    /\ bufYaml \in BufYamlFiles
    /\ goMod \in (IF config.Repositories = <<>> THEN SyncGoMods
                  ELSE GoModsBeside(config.Repositories))
    /\ target \in Targets
    /\ pc = "Validating"
    /\ Untouched

Next ==
    \/ SyncValidate
    \/ SyncResolveTarget
    \/ SyncResolveSources
    \/ SyncProcess
    \/ SyncAggregate
    \/ Cancel

Spec == Init /\ [][Next]_vars

\* every step of Sync moves pc or adds an outcome
progress == <<pc, Len(results)>>

\* the steps of Sync after its sources are resolved, and the two before
RunRest ==
    \/ SyncValidate
    \/ SyncResolveTarget
    \/ SyncProcess
    \/ SyncAggregate

\* The goroutine that runs Sync is always scheduled and every collaborator
\* returns, so a step that can be taken is taken.  SyncResolveSources can be
\* taken exactly when pc = "ResolvingSources" and always leaves that place:
\* its weak fairness is written out as what it amounts to.
SyncIsScheduled ==
    /\ WF_progress(RunRest)
    /\ []<>(pc # "ResolvingSources")

SpecLive == Init /\ [][Next]_vars /\ SyncIsScheduled

\* ---------------------------------------------------------------------------
\* Properties of Sync
\* ---------------------------------------------------------------------------
Returned == Len(ret) = 1

\* the sources as resolved, before override and truncation
Origin ==
    IF config0.Repositories # <<>> THEN config0.Repositories
    ELSE ParseProtobufLibraries(goMod).Info[1].Repositories

MutatingOps == {"DownloadModule", "CopyFile", "CreateDir", "MakeWritable", "WriteFile"}
PerSourceOps == MutatingOps \cup {"GetModulePath", "ListFiles"}

CallsOf(i) == SelectSeq(calls, LAMBDA c : c.src = i)

\* C1: in real mode, once the three setup steps have succeeded, Sync returns a
\* nil error and exactly one outcome per resolved source whatever failed for
\* the single sources: the loop never ends early, every source is processed,
\* and the returned list is the gathered list, untouched by the success count.
RealModeReturnsAllOutcomes ==
    ~config.DryRun =>
       /\ (pc = "Processing" => ~Returned /\ Len(results) <= Len(repositories))
       /\ (pc = "Done" =>
             /\ ret = <<[results |-> results, err |-> NoError]>>
             /\ Len(ret[1].results) = Len(repositories)
             /\ \A k \in 1..Len(repositories) :
                   \E j \in 1..Len(calls) :
                      calls[j].src = k /\ calls[j].op = "DownloadModule"
             /\ banner = IF \A k \in 1..Len(results) : results[k].Success
                         THEN <<"Success", "All proto files updated successfully!">>
                         ELSE <<"Warning",
                                Cardinality({k \in 1..Len(results) : results[k].Success}),
                                Len(repositories)>>)

\* C1 case: a run in real mode whose first source failed and whose second succeeded
FailureThenSuccessReturned ==
    /\ pc = "Done" /\ ~config.DryRun
    /\ Len(ret[1].results) = 2
    /\ ~ret[1].results[1].Success
    /\ ret[1].results[2].Success
    /\ ret[1].results[2].FilesUpdated # <<>>

\* C2: once ctx is cancelled Sync starts no further source: no collaborator
\* call is made for a source that had not been started at the cancellation,
\* and Sync returns, without an error, just the outcomes gathered until then.
StopsAtCancellation ==
    cancelled =>
       /\ \A j \in 1..Len(calls) : calls[j].src <= startedAtCancel
       /\ (pc = "Done" =>
             /\ ret[1].err = NoError
             /\ Len(ret[1].results) = startedAtCancel)

\* C3: in dry-run mode every outcome has Success = TRUE and a nil Error,
\* whatever the preview ran into.
DryRunNeverFails ==
    config.DryRun =>
       /\ \A k \in 1..Len(results) :
             results[k].Success /\ results[k].Error = NoError
       /\ (pc = "Done" => ret = <<[results |-> results, err |-> NoError]>>)

\* C3 case: dry runs whose previews met an unresolved module path, a missing
\* source directory, an absent specific file and a failed listing
DryRunPreviewedFailure ==
    /\ pc = "Done" /\ config.DryRun /\ Len(ret[1].results) = 2
    /\ previews[1] \in { <<"Error getting module path">>,
                         <<"Source directory does not exist yet (would be created by download)">>,
                         <<"Specific proto file that would be copied",
                           config.SpecificFile, "NOT FOUND - would fail">> }
    /\ previews[2] = <<"Proto files that would be copied", <<"Error listing files">>>>
          \/ previews[2] = <<"Specific proto file that would be copied",
                             config.SpecificFile, "NOT FOUND - would fail">>

\* C4: in dry-run mode no mutating collaborator operation is ever invoked and
\* the file system (target directory, module cache) stays as it was.
DryRunMutatesNothing ==
    config.DryRun =>
       /\ \A j \in 1..Len(calls) : calls[j].op \notin MutatingOps
       /\ target = target0
       /\ downloaded = {}

\* C4 case: a finished dry run that looked at the sources of two modules
DryRunLookedAtSources ==
    /\ pc = "Done" /\ config.DryRun
    /\ Len(results) = 2
    /\ \E j \in 1..Len(calls) : calls[j].src = 2 /\ calls[j].op = "ListFiles"
    /\ target0.exists

\* C5: when validation, target resolution or source resolution fails, Sync
\* returns an error and a nil outcome list and has made no per-source call;
\* and Sync gets to the sources only when all three steps succeeded.
SetupFailureAborts ==
    /\ pc = "Failed" =>
          /\ Returned
          /\ ret[1].results = <<>>
          /\ ret[1].err # NoError
          /\ results = <<>>
          /\ \A j \in 1..Len(calls) :
                calls[j].src = 0 /\ calls[j].op \notin PerSourceOps
          /\ target = target0 /\ downloaded = {}
    /\ pc \in {"Processing", "Done"} =>
          /\ ValidateConfig(config, bufYaml, goMod).err = NoError
          /\ ParseBufYaml(bufYaml, config.BufYamlPath).err = NoError
          /\ (config0.Repositories = <<>> =>
                 ParseProtobufLibraries(goMod).Err = NoError)

\* C5 case: source resolution failed after validation and target resolution passed
SourceResolutionFailed ==
    /\ pc = "Failed"
    /\ Len(calls) > 0
    /\ calls[Len(calls)].op = "ParseProtobufLibraries"
    /\ ~calls[Len(calls)].ok

\* C6: the k-th outcome carries the k-th source of the list that is processed,
\* each source has one outcome, and the calls for source k all come before
\* the calls for source k + 1.
OutcomesFollowSources ==
    /\ Len(results) <= Len(repositories)
    /\ \A k \in 1..Len(results) :
          /\ results[k].Repository = repositories[k]
          /\ CallsOf(k) # <<>>
    /\ \A j \in 1..(Len(calls) - 1) : calls[j].src <= calls[j + 1].src
    /\ \A j \in 1..Len(calls) : calls[j].src <= Len(results)
    /\ pc = "Done" =>
          /\ Len(ret[1].results) = Len(repositories)
          /\ \A k \in 1..Len(repositories) :
                ret[1].results[k].Repository = repositories[k]

\* C6 case: two different sources, both processed with several calls each
TwoSourcesInOrder ==
    /\ pc = "Done"
    /\ Len(repositories) = 2
    /\ repositories[1] # repositories[2]
    /\ Len(CallsOf(1)) > 1 /\ Len(CallsOf(2)) > 1

\* C7: a non-empty SpecifiedVersion is the version of every resolved source,
\* of every outcome and of every fetch, and overriding again changes nothing;
\* an empty one leaves every source its own version.  Names are never touched.
OverrideIsUniform ==
    pc \in {"Processing", "Done"} =>
       /\ LET origin == Origin
          IN  /\ Len(resolved) = Len(origin)
              /\ \A k \in 1..Len(resolved) :
                    /\ resolved[k].Name = origin[k].Name
                    /\ resolved[k].Version = IF config0.SpecifiedVersion # <<>>
                                             THEN config0.SpecifiedVersion
                                             ELSE origin[k].Version
       /\ OverrideVersion(resolved, config0.SpecifiedVersion) = resolved
       /\ \A k \in 1..Len(results) :
             results[k].Repository.Version = resolved[k].Version
       /\ \A j \in 1..Len(calls) :
             calls[j].op \in {"DownloadModule", "GetModulePath"} =>
                calls[j].arg = <<resolved[calls[j].src].Name,
                                 resolved[calls[j].src].Version>>

\* C7 case: two auto-discovered sources with versions of their own, overridden and fetched
OverrideAppliedToTwo ==
    /\ pc = "Done" /\ ~config.DryRun
    /\ config0.SpecifiedVersion # <<>>
    /\ config0.Repositories = <<>>
    /\ Len(results) = 2
    /\ \A k \in 1..2 : Origin[k].Version # config0.SpecifiedVersion
    /\ \E j \in 1..Len(calls) : calls[j].src = 2 /\ calls[j].op = "DownloadModule"

\* C8: with SingleRepo set and more than one resolved source exactly the
\* first one is processed and one outcome is returned; otherwise all are.
SingleSourceIsFirst ==
    pc \in {"Processing", "Done"} =>
       /\ IF config0.SingleRepo /\ Len(resolved) > 1
          THEN /\ repositories = <<resolved[1]>>
               /\ \A j \in 1..Len(calls) : calls[j].src <= 1
          ELSE repositories = resolved
       /\ (pc = "Done" =>
             /\ Len(ret[1].results) =
                   IF config0.SingleRepo /\ Len(resolved) > 1 THEN 1 ELSE Len(resolved)
             /\ \A k \in 1..Len(ret[1].results) :
                   ret[1].results[k].Repository = resolved[k])

\* C8 case: two different sources resolved, SingleRepo set, the run finished
SingleOfTwoProcessed ==
    /\ pc = "Done" /\ config0.SingleRepo
    /\ Len(resolved) = 2 /\ resolved[1] # resolved[2]
    /\ Len(ret[1].results) = 1
    /\ CallsOf(1) # <<>>

\* ---------------------------------------------------------------------------
\* Properties of ValidateConfig and of target resolution, seen through Sync
\* ---------------------------------------------------------------------------
Validated == pc \in {"ResolvingTargets", "ResolvingSources", "Processing", "Done", "Failed"}

RequiredMissing ==
    config0.BufYamlPath = "" \/ config0.GoModPath = "" \/ config0.SourcePath = ""

ValidationFailed == pc = "Failed" /\ ret[1].err[1] = "invalid configuration"

RequiredFieldErrors ==
    { <<"buf.yaml path is required">>, <<"go.mod path is required">>,
      <<"source path is required">> }

\* C15: ValidateConfig fails with a missing-required-field error exactly when
\* the buf.yaml path, the go.mod path or the source path is empty, whatever
\* sources are configured and whatever files exist; no file is looked at then.
RequiredFieldsAreChecked ==
    Validated =>
       /\ RequiredMissing <=>
             (ValidationFailed /\ Tail(ret[1].err) \in RequiredFieldErrors)
       /\ RequiredMissing => calls = <<>>

\* C15 case: explicit sources and an existing buf.yaml, the go.mod path alone empty
RequiredFieldMissingDespiteSources ==
    /\ ValidationFailed
    /\ config0.Repositories # <<>> /\ bufYaml.exists
    /\ config0.BufYamlPath # "" /\ config0.SourcePath # "" /\ config0.GoModPath = ""

FileMissing ==
    ~bufYaml.exists \/ (config0.Repositories = <<>> /\ ~goMod.exists)

FileNotFound ==
    /\ ValidationFailed
    /\ ret[1].err[2] \in {"buf.yaml file not found at", "go.mod file not found at"}

\* C16: with the three required fields present ValidateConfig fails with a
\* file-not-found error exactly when buf.yaml is missing, or no source is
\* configured and go.mod is missing; it only asks whether files exist and
\* leaves the configuration and the file system alone.
ReferencedFilesAreChecked ==
    (Validated /\ ~RequiredMissing) =>
       /\ FileMissing <=> FileNotFound
       /\ ~FileMissing => ~ValidationFailed
       /\ (pc = "ResolvingTargets" \/ ValidationFailed) =>
             /\ \A j \in 1..Len(calls) : calls[j].op = "FileExists"
             /\ Len(calls) \in 1..2
             /\ WithoutTargetPath(config) = config0
             /\ target = target0 /\ downloaded = {} /\ cache = <<>>

\* C16 case: explicit sources, no go.mod file, validation passed
MissingManifestAccepted ==
    /\ pc = "ResolvingTargets"
    /\ config0.Repositories # <<>>
    /\ ~goMod.exists

TargetResolved ==
    \/ pc \in {"ResolvingSources", "Processing", "Done"}
    \/ pc = "Failed" /\ ret[1].err[1] = "failed to parse go.mod"

\* C17: the target path is the path of the first module of buf.yaml and of no
\* other: resolution fails with no-modules when the list is empty and with
\* empty-module-path when the first path is blank, whatever the later entries.
FirstModuleIsTarget ==
    /\ TargetResolved =>
          /\ bufYaml.modules # <<>>
          /\ bufYaml.modules[1].Path # ""
          /\ config.TargetPath = bufYaml.modules[1].Path
    /\ (/\ pc = "Failed" /\ ret[1].err[1] = "failed to parse buf.yaml"
        /\ bufYaml.exists /\ bufYaml.readOk /\ bufYaml.yamlOk) =>
          IF bufYaml.modules = <<>>
          THEN ret[1].err[2] = "no modules found in"
          ELSE bufYaml.modules[1].Path = "" /\ ret[1].err[2] = "module path is empty in"

\* C17 case: the first module has no path, the second has one, resolution failed
BlankFirstModuleRejected ==
    /\ pc = "Failed"
    /\ ret[1].err[2] = "module path is empty in"
    /\ Len(bufYaml.modules) = 2
    /\ bufYaml.modules[2].Path # ""

\* ---------------------------------------------------------------------------
\* Properties of source resolution and of the run as a whole
\* ---------------------------------------------------------------------------
\* the calls of the manifest parser
ParserCalls == SelectSeq(calls, LAMBDA c : c.op = "ParseProtobufLibraries")

\* source resolution has been carried out
SourcesResolved ==
    \/ pc \in {"Processing", "Done"}
    \/ pc = "Failed" /\ ret[1].err[1] = "failed to parse go.mod"

\* C27: the manifest parser is called exactly when the configuration names no
\* source, and then once, during source resolution.  With configured sources
\* the resolved list has their identifiers in their order, whatever the
\* manifest holds; without them the resolved list is the parser's, and a
\* failure of the parser makes Sync return the error and no outcome list.
ParserRunsOnlyWithoutSources ==
    /\ (config0.Repositories # <<>> \/ ~SourcesResolved) =>
          \A j \in 1..Len(calls) : calls[j].op # "ParseProtobufLibraries"
    /\ (config0.Repositories # <<>> /\ SourcesResolved) =>
          /\ pc # "Failed"
          /\ Len(resolved) = Len(config0.Repositories)
          /\ \A k \in 1..Len(resolved) : resolved[k].Name = config0.Repositories[k].Name
    /\ (config0.Repositories = <<>> /\ SourcesResolved) =>
          LET g == ParseProtobufLibraries(goMod)
          IN  /\ ParserCalls = <<Call("ParseProtobufLibraries", 0,
                                      <<config.GoModPath>>, g.Err = NoError)>>
              /\ IF g.Err # NoError
                 THEN /\ pc = "Failed"
                      /\ ret = <<[results |-> <<>>,
                                  err |-> <<"failed to parse go.mod">> \o g.Err]>>
                      /\ results = <<>>
                 ELSE /\ pc # "Failed"
                      /\ Len(resolved) = Len(g.Info[1].Repositories)
                      /\ \A k \in 1..Len(resolved) :
                            resolved[k].Name = g.Info[1].Repositories[k].Name

\* C27 case: one source is configured next to a manifest whose section names
\* two others; the run finished with the configured source alone
ConfiguredSourceBesideManifest ==
    /\ pc = "Done"
    /\ Len(config0.Repositories) = 1
    /\ ParseProtobufLibraries(goMod).Err = NoError
    /\ Len(ParseProtobufLibraries(goMod).Info[1].Repositories) = 2
    /\ ParseProtobufLibraries(goMod).Info[1].Repositories[1].Name
          # config0.Repositories[1].Name
    /\ Len(ret[1].results) = 1
    /\ ret[1].results[1].Repository.Name = config0.Repositories[1].Name
    /\ ParserCalls = <<>>

\* the calls added by a step
NewCalls == SubSeq(calls', Len(calls) + 1, Len(calls'))

\* the places in `calls` of the calls of the given operation
PlacesOf(op) == {j \in 1..Len(calls) : calls[j].op = op}

\* what the calls made so far tell of the order of the phases
PhasesLeftInOrder ==
    /\ PlacesOf("ReadFile") # {} =>
          /\ ValidateConfig(config, bufYaml, goMod).err = NoError
          /\ \A j \in 1..(Min(PlacesOf("ReadFile")) - 1) : calls[j].op = "FileExists"
    /\ PlacesOf("ParseProtobufLibraries") # {} =>
          /\ ParseBufYaml(bufYaml, config.BufYamlPath).err = NoError
          /\ config.TargetPath = bufYaml.modules[1].Path
          /\ PlacesOf("ReadFile") # {}
          /\ Max(PlacesOf("ReadFile")) < Min(PlacesOf("ParseProtobufLibraries"))
    /\ \A j \in 1..Len(calls) :
          calls[j].src > 0 =>
             /\ SourcesResolved
             /\ calls[j].src <= Len(repositories)
             /\ \A m \in j..Len(calls) : calls[m].src > 0
    /\ banner # <<>> => pc = "Done" /\ Len(results) = Len(repositories)
    /\ Returned <=> pc \in {"Done", "Failed"}

\* what a step of Sync may do in the phase it is taken in
PhaseStep ==
    /\ pc' # pc =>
          <<pc, pc'>> \in { <<"Validating", "ResolvingTargets">>, <<"Validating", "Failed">>,
                           <<"ResolvingTargets", "ResolvingSources">>,
                           <<"ResolvingTargets", "Failed">>,
                           <<"ResolvingSources", "Processing">>,
                           <<"ResolvingSources", "Failed">>,
                           <<"Processing", "Done">> }
    /\ calls' # calls =>
          /\ pc = "Validating" =>
                \A j \in 1..Len(NewCalls) : NewCalls[j].op = "FileExists" /\ NewCalls[j].src = 0
          /\ pc = "ResolvingTargets" =>
                \A j \in 1..Len(NewCalls) :
                   NewCalls[j].op \in {"FileExists", "ReadFile"} /\ NewCalls[j].src = 0
          /\ pc = "ResolvingSources" =>
                /\ Len(NewCalls) = 1
                /\ NewCalls[1].op = "ParseProtobufLibraries"
          /\ pc = "Processing" =>
                \A j \in 1..Len(NewCalls) : NewCalls[j].src = Len(results) + 1
          /\ pc \notin {"Done", "Failed"}
    /\ config'.TargetPath # config.TargetPath => pc = "ResolvingTargets"
    /\ repositories' # repositories => pc = "ResolvingSources" /\ pc' = "Processing"
    /\ results' # results =>
          /\ pc = "Processing" /\ pc' = "Processing"
          /\ Len(results) < Len(repositories)
          /\ results' = Append(results, results'[Len(results')])
    /\ (banner' # banner \/ (pc = "Processing" /\ pc' = "Done")) =>
          /\ pc = "Processing" /\ pc' = "Done"
          /\ Len(results) = Len(repositories)
          /\ results' = results /\ calls' = calls
    /\ ret' # ret => pc' \in {"Done", "Failed"} /\ pc' # pc

\* C28: a run of Sync goes through Validating, ResolvingTargets,
\* ResolvingSources, the processing of the sources and the aggregation, in
\* this order and without going back: buf.yaml is read only after validation
\* succeeded, the manifest is parsed only after the target was resolved, the
\* calls for the sources come after source resolution, and the summary is made
\* in the step after the last source was processed, in which Sync returns.
PhasesInOrder == []PhasesLeftInOrder /\ [][PhaseStep]_vars

\* C28 case: a finished run in real mode that read buf.yaml, parsed the
\* manifest, processed two sources and made its summary
AllPhasesPassed ==
    /\ pc = "Done" /\ ~config.DryRun
    /\ PlacesOf("ReadFile") # {}
    /\ PlacesOf("ParseProtobufLibraries") # {}
    /\ Len(results) = 2
    /\ CallsOf(1) # <<>> /\ CallsOf(2) # <<>>
    /\ banner # <<>>

\* the operations whose argument can be a path in the target directory
TargetOps == {"FileExists", "ListFiles", "CreateDir", "MakeWritable", "CopyFile"}

\* what holds of TargetPath in every state of a run
TargetPathKnownToSources ==
    /\ (pc \in {"Processing", "Done"} \/ results # <<>>) =>
          /\ bufYaml.modules # <<>>
          /\ config.TargetPath # ""
          /\ config.TargetPath = bufYaml.modules[1].Path
          /\ \A j \in 1..Len(calls) :
                (/\ calls[j].src > 0
                 /\ calls[j].op \in TargetOps
                 /\ calls[j].arg[1] = "target") =>
                   calls[j].arg[2] = bufYaml.modules[1].Path
    /\ ParseBufYaml(bufYaml, config.BufYamlPath).err # NoError =>
          /\ pc \notin {"ResolvingSources", "Processing", "Done"}
          /\ results = <<>> /\ previews = <<>>
          /\ \A j \in 1..Len(calls) : calls[j].src = 0

\* TargetPath is written by target resolution alone, which puts the path of
\* the first module in the place of whatever the caller had given
TargetPathStep ==
    /\ (pc = "ResolvingTargets" /\ pc' = "ResolvingSources") =>
          config'.TargetPath = bufYaml.modules[1].Path
    /\ config'.TargetPath # config.TargetPath =>
          pc = "ResolvingTargets" /\ pc' = "ResolvingSources"
    /\ pc' = "Processing" => config'.TargetPath = bufYaml.modules[1].Path

\* C29: whenever a source is simulated or processed, TargetPath is the
\* non-empty path of the first module of buf.yaml and the calls on the target
\* directory use it; a run whose target cannot be resolved never gets to a
\* source; the value the caller gave is replaced by the resolved one.
TargetPathIsResolvedFirst == []TargetPathKnownToSources /\ [][TargetPathStep]_vars

\* C29 case: buf.yaml declares two modules with different paths; two sources
\* were processed and a file of the second was copied under the first path
CopiedUnderFirstModulePath ==
    /\ pc = "Done" /\ ~config.DryRun
    /\ Len(bufYaml.modules) = 2
    /\ bufYaml.modules[1].Path # bufYaml.modules[2].Path
    /\ config.TargetPath = bufYaml.modules[1].Path
    /\ Len(results) = 2
    /\ \E j \in 1..Len(calls) :
          /\ calls[j].src = 2 /\ calls[j].op = "CopyFile" /\ calls[j].ok
          /\ calls[j].arg[2] = bufYaml.modules[1].Path

\* the fields of the configuration that Sync only reads
ReadOnlyFields ==
    {"SourcePath", "BufYamlPath", "GoModPath", "SpecificFile", "DryRun", "SingleRepo",
     "SpecifiedVersion"}

\* C30: of the caller's configuration Sync writes TargetPath and, with a
\* SpecifiedVersion, the Version of the configured sources, and nothing else:
\* the other fields keep their values, config.Repositories keeps its length,
\* its order, its Names and URLs, also when SingleRepo cuts the processed
\* list down to one source, and without a SpecifiedVersion it is unchanged.
ConfigurationIsFramed ==
    /\ \A f \in ReadOnlyFields : config[f] = config0[f]
    /\ Len(config.Repositories) = Len(config0.Repositories)
    /\ \A k \in 1..Len(config.Repositories) :
          /\ config.Repositories[k].Name = config0.Repositories[k].Name
          /\ config.Repositories[k].URL = config0.Repositories[k].URL
          /\ config.Repositories[k].Version =
                IF config0.SpecifiedVersion # <<>> /\ pc \in {"Processing", "Done"}
                THEN config0.SpecifiedVersion
                ELSE config0.Repositories[k].Version
    /\ config0.SpecifiedVersion = <<>> => config.Repositories = config0.Repositories

\* C30 case: two configured sources, SingleRepo and a SpecifiedVersion: one
\* outcome is returned, the configuration still names both sources and the
\* version of the second, which was not processed, is rewritten as well
TruncatedRunKeepsBothSources ==
    /\ pc = "Done"
    /\ config0.SingleRepo /\ config0.SpecifiedVersion # <<>>
    /\ Len(config0.Repositories) = 2
    /\ Len(ret[1].results) = 1
    /\ Len(config.Repositories) = 2
    /\ config.Repositories[2].Name = config0.Repositories[2].Name
    /\ config.Repositories[2].Version = config0.SpecifiedVersion
    /\ config0.Repositories[2].Version # config0.SpecifiedVersion
    /\ config.TargetPath # ""

\* Sync has returned
Terminal == pc \in {"Done", "Failed"}

\* the first call made for a source
FirstOp == IF config.DryRun THEN "GetModulePath" ELSE "DownloadModule"

\* every source with an outcome was begun once, in the order of the list
ProcessedOnce ==
    LET firsts == SelectSeq(calls, LAMBDA c : c.op = FirstOp)
    IN  /\ Len(firsts) = Len(results)
        /\ \A k \in 1..Len(firsts) : firsts[k].src = k
        /\ Len(results) <= Len(repositories)
        /\ \A k \in 1..Len(results) : results[k].Repository = repositories[k]
        /\ pc = "Done" => Len(results) = Len(repositories)
        /\ pc = "Failed" => results = <<>> /\ calls = SelectSeq(calls, LAMBDA c : c.src = 0)

\* C31: every run of Sync ends, in Failed or in Done; in Done every source of
\* the list has been processed, each source is begun exactly once whether it
\* fails or not, and nothing is done once Sync has returned.
SyncTerminates == <>Terminal /\ []ProcessedOnce /\ [][~Terminal]_vars

\* C31 case: a finished run in real mode in which both sources failed, each
\* after a single fetch
BothFailedNoRetry ==
    /\ pc = "Done" /\ ~config.DryRun
    /\ Len(ret[1].results) = 2
    /\ ~ret[1].results[1].Success /\ ~ret[1].results[2].Success
    /\ Len(SelectSeq(calls, LAMBDA c : c.op = "DownloadModule")) = 2

\* the manifest holds the marker and, after it, no directive
EmptySection ==
    /\ goMod.exists
    /\ LET s == ScanLoop(goMod.lines, goMod.errAt, 1, FALSE, <<>>)
       IN  ~s.err /\ s.found /\ s.repos = <<>>

\* C33: when the sources are discovered from a manifest that holds the marker
\* and no directive, Sync goes on with zero sources: it makes no call for any
\* source, changes nothing, returns an empty outcome list with a nil error,
\* and in real mode reports that all files were updated.
EmptySectionSucceeds ==
    (/\ config0.Repositories = <<>>
     /\ ParserCalls # <<>>
     /\ EmptySection)
    => /\ pc \in {"Processing", "Done"}
       /\ repositories = <<>> /\ results = <<>>
       /\ \A j \in 1..Len(calls) : calls[j].src = 0 /\ calls[j].op \notin PerSourceOps
       /\ target = target0 /\ downloaded = {}
       /\ pc = "Done" =>
             /\ ret = <<[results |-> <<>>, err |-> NoError]>>
             /\ banner = IF config.DryRun THEN <<>>
                         ELSE <<"Success", "All proto files updated successfully!">>

\* C33 case: a finished real run over a manifest with the marker alone
NothingToDoReportedAsSuccess ==
    /\ pc = "Done" /\ ~config.DryRun
    /\ config0.Repositories = <<>>
    /\ EmptySection
    /\ ret = <<[results |-> <<>>, err |-> NoError]>>
    /\ banner = <<"Success", "All proto files updated successfully!">>

\* C34: in real and in dry-run mode every outcome, gathered or returned, is
\* successful exactly when it carries no error.
SuccessIffNoError ==
    /\ \A k \in 1..Len(results) :
          results[k].Success <=> (results[k].Error = NoError)
    /\ \A r \in 1..Len(ret) :
          \A k \in 1..Len(ret[r].results) :
             ret[r].results[k].Success <=> (ret[r].results[k].Error = NoError)

\* C34 case: a real run returned a successful outcome without error and a
\* failed one with its error
OneSucceededOneFailed ==
    /\ pc = "Done" /\ ~config.DryRun
    /\ Len(ret[1].results) = 2
    /\ ret[1].results[1].Success /\ ret[1].results[1].Error = NoError
    /\ ~ret[1].results[2].Success /\ ret[1].results[2].Error # NoError

\* the version source k is to be fetched at: the override when there is one,
\* else the version the source came with, empty or not
VersionToFetch(k) ==
    IF config0.SpecifiedVersion # <<>> THEN config0.SpecifiedVersion
    ELSE IF config0.Repositories # <<>> THEN config0.Repositories[k].Version
    ELSE resolved[k].Version

SourceDirOf(repo) == <<"GOMODCACHE", repo.Name, repo.Version, config.SourcePath>>

\* the names of the schema files of a source, in listing order; <<>> while
\* the subdirectory has not been looked at
SchemaFilesOf(repo) ==
    IF <<repo.Name, repo.Version>> \in DOMAIN cache
    THEN SelectSeq(<<"a.proto", "b.proto", "c.proto">>,
                   LAMBDA n : n \in cache[<<repo.Name, repo.Version>>].files)
    ELSE <<>>

\* C19: in real mode without SpecificFile a successful outcome lists exactly
\* the schema files of the source subdirectory, one entry per file, in
\* listing order, each with its path in the target directory, and all these
\* files are in the target directory; an outcome fails only if a step failed.
BulkCopyReportsEveryFile ==
    (~config.DryRun /\ config.SpecificFile = "") =>
       \A k \in 1..Len(results) :
          LET repo  == results[k].Repository
              names == SchemaFilesOf(repo)
          IN  IF results[k].Success
              THEN /\ <<repo.Name, repo.Version>> \in DOMAIN cache
                   /\ results[k].FilesUpdated =
                         [j \in 1..Len(names) |->
                             [Name |-> names[j],
                              Path |-> <<"target", config.TargetPath, names[j]>>]]
                   /\ target.exists
                   /\ \A j \in 1..Len(names) : names[j] \in target.files
              ELSE \E j \in 1..Len(calls) : calls[j].src = k /\ ~calls[j].ok

\* C19 case: one source with a.proto and b.proto, no target directory before
\* the run, both files copied
TwoFilesCopied ==
    /\ pc = "Done" /\ ~config.DryRun /\ config.SpecificFile = ""
    /\ Len(ret[1].results) = 1
    /\ ret[1].results[1].Success
    /\ Len(ret[1].results[1].FilesUpdated) = 2
    /\ ret[1].results[1].FilesUpdated[1].Name = "a.proto"
    /\ ret[1].results[1].FilesUpdated[2].Name = "b.proto"
    /\ ~target0.exists
    /\ target = [exists |-> TRUE, files |-> {"a.proto", "b.proto"}]

\* source k was asked for SpecificFile and does not hold it
SpecificFileAbsent(k) ==
    \E j \in 1..Len(calls) :
       calls[j] = Call("FileExists", k,
                       Append(SourceDirOf(results[k].Repository), config.SpecificFile),
                       FALSE)

\* the listing of the source subdirectory of source k succeeded
SourceListed(k, ok) ==
    \E j \in 1..Len(calls) :
       calls[j] = Call("ListFiles", k, SourceDirOf(results[k].Repository), ok)

\* what holds of the outcome of source k whatever the listing does
MissingFileOutcome(k) ==
    /\ ~results[k].Success
    /\ results[k].FilesUpdated = <<>>
    /\ Len(results[k].Error) = 4
    /\ results[k].Error[1] = "specific proto file not found"
    /\ results[k].Error[2] = config.SpecificFile
    /\ \A j \in 1..Len(calls) :
          calls[j].src = k => calls[j].op \notin {"MakeWritable", "CopyFile"}

\* C20, as far as it holds: in real mode a SpecificFile absent from the
\* source subdirectory gives a failed outcome whose reason names the file,
\* without MakeWritable or CopyFile; the subdirectory is listed and the reason
\* enumerates all its schema files when the listing succeeds, and the files
\* listed before the error when it fails.
MissingFileListsWhatWasListed ==
    (~config.DryRun /\ config.SpecificFile # "") =>
       \A k \in 1..Len(results) :
          SpecificFileAbsent(k) =>
             LET all == SchemaFilesOf(results[k].Repository)
             IN  /\ MissingFileOutcome(k)
                 /\ SourceListed(k, TRUE) \/ SourceListed(k, FALSE)
                 /\ SourceListed(k, TRUE) => results[k].Error[4] = all
                 /\ Len(results[k].Error[4]) <= Len(all)
                 /\ results[k].Error[4] = SubSeq(all, 1, Len(results[k].Error[4]))

\* C20 case: c.proto asked for, a.proto and b.proto there and enumerated
MissingFileAmongTwo ==
    /\ pc = "Done" /\ ~config.DryRun /\ config.SpecificFile = "c.proto"
    /\ Len(results) >= 1
    /\ SpecificFileAbsent(1)
    /\ SourceListed(1, TRUE)
    /\ results[1].Error[4] = <<"a.proto", "b.proto">>

\* C20 as stated: the reason always enumerates all schema files of the
\* source subdirectory.
MissingFileListsAll ==
    (~config.DryRun /\ config.SpecificFile # "") =>
       \A k \in 1..Len(results) :
          SpecificFileAbsent(k) =>
             /\ MissingFileOutcome(k)
             /\ results[k].Error[4] = SchemaFilesOf(results[k].Repository)

\* ---------------------------------------------------------------------------
\* Properties of the per-source steps
\* ---------------------------------------------------------------------------
\* the operations of the copy step
CopyOps == {"FileExists", "ListFiles", "MakeWritable", "CopyFile"}

\* the outcome of source k failed with the failure of the given step
FailedWith(k, step) ==
    /\ ~results[k].Success
    /\ results[k].FilesUpdated = <<>>
    /\ results[k].Error # NoError
    /\ results[k].Error[1] = step

\* C21: in real mode the steps of a source run in the order fetch, module
\* path, source subdirectory check, target directory check and creation,
\* copy; the first step that fails is the last call made for the source and
\* gives the outcome its failure: nothing follows a failed fetch, no directory
\* is created and nothing copied after a missing source subdirectory, nothing
\* is copied after a failed creation of the target directory.
StepsRunInOrder ==
    ~config.DryRun =>
       \A k \in 1..Len(results) :
          LET cs    == CallsOf(k)
              repo  == results[k].Repository
              after(n) == {cs[j].op : j \in (n + 1)..Len(cs)}
          IN  /\ Len(cs) >= 1
              /\ cs[1].op = "DownloadModule"
              /\ cs[1].arg = <<repo.Name, repo.Version>>
              /\ IF ~cs[1].ok
                 THEN Len(cs) = 1 /\ FailedWith(k, "failed to download module")
                 ELSE
                 /\ Len(cs) >= 2
                 /\ cs[2].op = "GetModulePath"
                 /\ IF ~cs[2].ok
                    THEN Len(cs) = 2 /\ FailedWith(k, "failed to get module path")
                    ELSE
                    /\ Len(cs) >= 3
                    /\ cs[3].op = "FileExists" /\ cs[3].arg = SourceDirOf(repo)
                    /\ IF ~cs[3].ok
                       THEN Len(cs) = 3 /\ FailedWith(k, "source directory not found")
                       ELSE
                       /\ Len(cs) >= 4
                       /\ cs[4].op = "FileExists" /\ cs[4].arg = TargetDir(config)
                       /\ IF cs[4].ok
                          THEN after(4) \subseteq CopyOps
                          ELSE
                          /\ Len(cs) >= 5
                          /\ cs[5].op = "CreateDir"
                          /\ IF ~cs[5].ok
                             THEN /\ Len(cs) = 5
                                  /\ FailedWith(k, "failed to create target directory")
                             ELSE after(5) \subseteq CopyOps

\* C21 case: the first source was fetched and has no source subdirectory, the
\* target directory could not be created for the second
LateStepsFailed ==
    /\ pc = "Done" /\ ~config.DryRun
    /\ Len(results) = 2
    /\ FailedWith(1, "source directory not found")
    /\ <<results[1].Repository.Name, results[1].Repository.Version>> \in downloaded
    /\ FailedWith(2, "failed to create target directory")
    /\ ~target.exists

\* the CopyFile calls made for source k, in order
CopiesIn(cs) == SelectSeq(cs, LAMBDA c : c.op = "CopyFile")
CopiesOf(k) == CopiesIn(CallsOf(k))

\* C22: in real mode without SpecificFile the files of a source are copied in
\* listing order; a CopyFile that fails is the last call made for the source,
\* whose outcome then has Success = FALSE and names the file; the source after
\* it is processed all the same and Sync returns one outcome per source.
BulkCopyStopsAtFirstFailure ==
    (~config.DryRun /\ config.SpecificFile = "") =>
       /\ \A k \in 1..Len(results) :
             LET cs     == CallsOf(k)
                 copies == CopiesIn(cs)
                 names  == SchemaFilesOf(results[k].Repository)
                 n      == Len(copies)
             IN  /\ n <= Len(names)
                 /\ \A j \in 1..n :
                       /\ copies[j].arg = <<"target", config.TargetPath, names[j]>>
                       /\ j < n => copies[j].ok
                 /\ (n > 0 /\ ~copies[n].ok) =>
                       /\ FailedWith(k, "failed to copy")
                       /\ results[k].Error[2] = names[n]
                       /\ cs[Len(cs)] = copies[n]
                 /\ (n > 0 /\ copies[n].ok) => n = Len(names) /\ results[k].Success
       /\ pc = "Done" => Len(ret[1].results) = Len(repositories)

\* C22 case: the second of two files of the first source could not be copied,
\* the second source was then processed and its files were copied
CopyFailedThenNextSourceCopied ==
    /\ pc = "Done" /\ ~config.DryRun /\ config.SpecificFile = ""
    /\ Len(ret[1].results) = 2
    /\ Len(CopiesOf(1)) = 2
    /\ CopiesOf(1)[1].ok /\ ~CopiesOf(1)[2].ok
    /\ ~ret[1].results[1].Success
    /\ ret[1].results[2].Success
    /\ ret[1].results[2].FilesUpdated # <<>>

\* C23: an outcome with Success = FALSE has no FilesUpdated, in the gathered
\* list and in the returned one, also when files of the source had been
\* copied before the copy that failed.
FailedOutcomesListNoFiles ==
    /\ \A k \in 1..Len(results) :
          ~results[k].Success => results[k].FilesUpdated = <<>>
    /\ Returned =>
          \A k \in 1..Len(ret[1].results) :
             ~ret[1].results[k].Success => ret[1].results[k].FilesUpdated = <<>>

\* C23 case: a.proto was copied into a new target directory, b.proto failed,
\* and the returned outcome lists no file
PartialCopyReportsNothing ==
    /\ pc = "Done" /\ ~config.DryRun /\ config.SpecificFile = ""
    /\ Len(ret[1].results) >= 1
    /\ ~ret[1].results[1].Success
    /\ ret[1].results[1].FilesUpdated = <<>>
    /\ Len(CopiesOf(1)) = 2
    /\ CopiesOf(1)[1].ok /\ ~CopiesOf(1)[2].ok
    /\ ~target0.exists
    /\ "a.proto" \in target.files

\* the MakeWritable calls made for source k, in order
WritablesIn(cs) == SelectSeq(cs, LAMBDA c : c.op = "MakeWritable")
WritableCallsOf(k) == WritablesIn(CallsOf(k))

\* the target directory was listed for source k, with the given success
TargetListed(k, ok) ==
    \E j \in 1..Len(calls) : calls[j] = Call("ListFiles", k, TargetDir(config), ok)

\* the CopyFile calls made for the sources before source k
CopiesBefore(k) == SelectSeq(calls, LAMBDA c : c.src < k /\ c.op = "CopyFile")

\* the schema files in the target directory before the run
InTargetBefore == IF target0.exists THEN target0.files ELSE {}

\* the listings of the target directory among the calls cs
TargetListingsIn(cs) ==
    {j \in 1..Len(cs) : cs[j].op = "ListFiles" /\ cs[j].arg[1] = "target"}

\* C24: in real mode without SpecificFile, once a source has schema files,
\* neither a failed listing of the target directory nor a failed MakeWritable
\* fails the source: after a successful listing MakeWritable is called on
\* every schema file already in the target directory, in listing order,
\* whichever of these calls fail; the copy of the source files begins in every
\* case, and the outcome has Success = TRUE exactly when every copy succeeded.
WritabilityIsBestEffort ==
    (~config.DryRun /\ config.SpecificFile = "") =>
       \A k \in 1..Len(results) :
          LET cs     == CallsOf(k)
              listed == TargetListingsIn(cs)
          IN  listed # {} =>
                LET mws     == WritablesIn(cs)
                    done    == {mws[j].arg[3] : j \in 1..Len(mws)}
                    inOrder == SelectSeq(WalkOrder, LAMBDA n : n \in done)
                    copies  == CopiesIn(cs)
                    names   == SchemaFilesOf(results[k].Repository)
                    earlier == CopiesBefore(k)
                    surely  == InTargetBefore
                                  \cup {earlier[j].arg[3] :
                                           j \in {m \in 1..Len(earlier) : earlier[m].ok}}
                    maybe   == InTargetBefore
                                  \cup {earlier[j].arg[3] : j \in 1..Len(earlier)}
                IN  /\ done \subseteq maybe
                    /\ Len(mws) = Len(inOrder)
                    /\ \A j \in 1..Len(mws) :
                          mws[j].arg = <<"target", config.TargetPath, inOrder[j]>>
                    /\ (\A j \in listed : cs[j].ok) => surely \subseteq done
                    /\ names # <<>>
                    /\ copies # <<>>
                    /\ copies[1].arg = <<"target", config.TargetPath, names[1]>>
                    /\ results[k].Success <=>
                          (Len(copies) = Len(names)
                           /\ \A j \in 1..Len(copies) : copies[j].ok)

\* C24 case: the listing of the target directory failed for the first source,
\* the first of two MakeWritable calls failed for the second, and the files of
\* both sources were copied
ChmodFailedAllCopied ==
    /\ pc = "Done" /\ ~config.DryRun /\ config.SpecificFile = ""
    /\ Len(ret[1].results) = 2
    /\ TargetListed(1, FALSE)
    /\ ret[1].results[1].Success
    /\ Len(ret[1].results[1].FilesUpdated) = 2
    /\ TargetListed(2, TRUE)
    /\ Len(WritableCallsOf(2)) = 2
    /\ ~WritableCallsOf(2)[1].ok
    /\ ret[1].results[2].Success
    /\ ret[1].results[2].FilesUpdated # <<>>

\* the destination of SpecificFile in the target directory
SpecificTarget == <<"target", config.TargetPath, config.SpecificFile>>

\* source k holds SpecificFile
SpecificFileThere(k) ==
    \E j \in 1..Len(calls) :
       calls[j] = Call("FileExists", k,
                       Append(SourceDirOf(results[k].Repository), config.SpecificFile),
                       TRUE)

\* what FileExists said of the destination when source k was processed
DestinationSeen(k, there) ==
    \E j \in 1..Len(calls) : calls[j] = Call("FileExists", k, SpecificTarget, there)

\* the place among all calls of the call of `op` made for source k
PlaceOf(k, op) ==
    CHOOSE j \in 1..Len(calls) : calls[j].src = k /\ calls[j].op = op

\* C25: in real mode with SpecificFile present in the source subdirectory,
\* a file of that name in the target directory gets one MakeWritable call
\* before CopyFile; when that call fails the outcome fails and CopyFile is
\* not called; with no such file in the target directory MakeWritable is
\* not called and the file is copied straight away.
SpecificFileMadeWritableFirst ==
    (~config.DryRun /\ config.SpecificFile # "") =>
       \A k \in 1..Len(results) :
          LET mws    == WritableCallsOf(k)
              copies == CopiesOf(k)
          IN  IF ~SpecificFileThere(k)
              THEN mws = <<>> /\ copies = <<>>
              ELSE /\ DestinationSeen(k, TRUE) \/ DestinationSeen(k, FALSE)
                   /\ (k = 1 => (DestinationSeen(k, TRUE) <=>
                                   (target0.exists /\ config.SpecificFile \in target0.files)))
                   /\ IF DestinationSeen(k, TRUE)
                      THEN /\ Len(mws) = 1
                           /\ mws[1].arg = SpecificTarget
                           /\ IF mws[1].ok
                              THEN /\ Len(copies) = 1
                                   /\ copies[1].arg = SpecificTarget
                                   /\ PlaceOf(k, "MakeWritable") < PlaceOf(k, "CopyFile")
                              ELSE /\ copies = <<>>
                                   /\ FailedWith(k, "failed to make target file writable")
                      ELSE /\ mws = <<>>
                           /\ Len(copies) = 1
                           /\ copies[1].arg = SpecificTarget

\* C25 case: a.proto was copied for the first source into a new target
\* directory without MakeWritable; for the second source it was there, could
\* not be made writable and was not copied
ReadOnlyDestinationBlocksCopy ==
    /\ pc = "Done" /\ ~config.DryRun /\ config.SpecificFile = "a.proto"
    /\ Len(ret[1].results) = 2
    /\ ~target0.exists
    /\ SpecificFileThere(1) /\ DestinationSeen(1, FALSE)
    /\ WritableCallsOf(1) = <<>>
    /\ ret[1].results[1].Success
    /\ SpecificFileThere(2) /\ DestinationSeen(2, TRUE)
    /\ Len(WritableCallsOf(2)) = 1 /\ ~WritableCallsOf(2)[1].ok
    /\ CopiesOf(2) = <<>>
    /\ ~ret[1].results[2].Success

\* C26: in real mode without SpecificFile, a source subdirectory that was
\* listed and holds no schema file gives an outcome with Success = TRUE, no
\* error and no FilesUpdated; the listing is the last call made for the
\* source: the target directory is not listed, MakeWritable and CopyFile are
\* not called.
EmptySourceSucceeds ==
    (~config.DryRun /\ config.SpecificFile = "") =>
       \A k \in 1..Len(results) :
          SchemaFilesOf(results[k].Repository) = <<>> =>
             LET cs == CallsOf(k)
             IN  (\E j \in 1..Len(cs) :
                     cs[j].op = "ListFiles" /\ cs[j].arg[1] = "GOMODCACHE" /\ cs[j].ok) =>
                    /\ results[k].Success
                    /\ results[k].Error = NoError
                    /\ results[k].FilesUpdated = <<>>
                    /\ WritablesIn(cs) = <<>>
                    /\ CopiesIn(cs) = <<>>
                    /\ TargetListingsIn(cs) = {}
                    /\ cs[Len(cs)] = Call("ListFiles", k,
                                          SourceDirOf(results[k].Repository), TRUE)

\* C26 case: the only source has an empty source subdirectory; the target
\* directory was created for it and stays empty
EmptySourceProcessed ==
    /\ pc = "Done" /\ ~config.DryRun /\ config.SpecificFile = ""
    /\ Len(ret[1].results) = 1
    /\ SourceListed(1, TRUE)
    /\ cache[<<results[1].Repository.Name, results[1].Repository.Version>>] =
          [dir |-> TRUE, files |-> {}]
    /\ ret[1].results[1].Success
    /\ ret[1].results[1].FilesUpdated = <<>>
    /\ ~target0.exists
    /\ target = [exists |-> TRUE, files |-> {}]
    /\ banner = <<"Success", "All proto files updated successfully!">>

\* the module cache entry of the module of source k
TreeOf(k) == cache[<<repositories[k].Name, repositories[k].Version>>]

\* source k made a call of the given kind that came back without error
CallOk(k, op) ==
    \E j \in 1..Len(calls) : calls[j].src = k /\ calls[j].op = op /\ calls[j].ok

MissingDirPreview ==
    <<"Source directory does not exist yet (would be created by download)">>

SpecificPreview(there) ==
    IF there
    THEN <<"Specific proto file that would be copied", config.SpecificFile>>
    ELSE <<"Specific proto file that would be copied", config.SpecificFile,
           "NOT FOUND - would fail">>

\* the preview of source k as a projection of what its subdirectory holds
ProjectionOf(k) ==
    LET tree == TreeOf(k)
    IN  IF ~tree.dir THEN MissingDirPreview
        ELSE IF config.SpecificFile # ""
        THEN SpecificPreview(config.SpecificFile \in tree.files)
        ELSE LET ns == SelectSeq(WalkOrder, LAMBDA n : n \in tree.files)
             IN  <<"Proto files that would be copied",
                   [j \in 1..Len(ns) |-> Base(ns[j])]>>

\* the statement without the two error previews: every preview is one of the
\* three projections of the source subdirectory
PreviewIsOneOfThree ==
    config.DryRun =>
       \A k \in 1..Len(previews) :
          /\ <<repositories[k].Name, repositories[k].Version>> \in DOMAIN cache
          /\ previews[k] = ProjectionOf(k)

\* every preview is fixed by what the collaborators answered: an unresolved
\* module path and a failed listing have previews of their own, any other
\* preview is the projection of the source subdirectory
PreviewsAreProjections ==
    IF ~config.DryRun THEN \A k \in 1..Len(previews) : previews[k] = <<>>
    ELSE \A k \in 1..Len(previews) :
            /\ \A j \in 1..Len(calls) :
                  calls[j].src = k =>
                     calls[j].op \in {"GetModulePath", "FileExists", "ListFiles"}
            /\ IF ~CallOk(k, "GetModulePath")
               THEN previews[k] = <<"Error getting module path">>
               ELSE IF /\ TreeOf(k).dir /\ config.SpecificFile = ""
                       /\ ~CallOk(k, "ListFiles")
               THEN previews[k] = <<"Proto files that would be copied",
                                    <<"Error listing files">>>>
               ELSE previews[k] = ProjectionOf(k)

\* no collaborator call of cs is answered otherwise in ds
Agree(cs, ds) ==
    \A a \in 1..Len(cs), b \in 1..Len(ds) :
       (cs[a].op = ds[b].op /\ cs[a].arg = ds[b].arg) => cs[a].ok = ds[b].ok

\* a dry-run step marks the specific file as failing exactly when a real run
\* that is not cancelled and gets the answers the preview got, on the module
\* cache as the preview found it, can fail with specific-file-not-found
MarkerStep ==
    (config.DryRun /\ Len(previews') = Len(previews) + 1) =>
       LET k    == Len(previews')
           read == SubSeq(calls', Len(calls) + 1, Len(calls'))
           real == processRepository([World EXCEPT !.cancelled = FALSE], k,
                                     repositories[k],
                                     [config EXCEPT !.DryRun = FALSE])
       IN  (previews'[k] = SpecificPreview(FALSE))
              <=> \E o \in real :
                     /\ o.result.Error # NoError
                     /\ o.result.Error[1] = "specific proto file not found"
                     /\ o.w.cache = cache'
                     /\ Agree(read, o.calls)

\* C32: the dry-run preview of a source is fixed by collaborator reads alone:
\* "Error getting module path" when the module path is not resolved;
\* otherwise the missing-directory text when the source subdirectory does not
\* exist, the specific file's name (with the would-fail marker when the file
\* is not there) when SpecificFile is set, and else the list of the schema
\* files or "Error listing files"; the marker is printed exactly when real
\* mode can fail with specific-file-not-found on the same module cache.
DryRunPreviewsProject == []PreviewsAreProjections /\ [][MarkerStep]_vars

\* C32 case: a finished dry run whose first source lacks the specific file
\* and whose second source holds it
MarkedAndUnmarked ==
    /\ pc = "Done" /\ config.DryRun
    /\ Len(previews) = 2
    /\ previews[1] = SpecificPreview(FALSE)
    /\ previews[2] = SpecificPreview(TRUE)

\* C36: nothing is rolled back.  Every file a CopyFile call has copied is in
\* the target directory from then on, a target directory that was created
\* stays, and what was there before the run stays, whatever the outcome of
\* the source that copied and of the sources after it; a failed outcome
\* still lists no file.
NothingIsRolledBack ==
    ~config.DryRun =>
       /\ \A j \in 1..Len(calls) :
             /\ (calls[j].op = "CopyFile" /\ calls[j].ok) =>
                   target.exists /\ calls[j].arg[3] \in target.files
             /\ (calls[j].op = "CreateDir" /\ calls[j].ok) => target.exists
       /\ target0.exists => target.exists
       /\ target0.files \subseteq target.files
       /\ \A k \in 1..Len(results) :
             ~results[k].Success => results[k].FilesUpdated = <<>>

\* C36 case: the first source created the target directory and copied two
\* files; the second copied one file and failed at the next; the directory
\* and both files are there at the end
FailedSourceLeavesFiles ==
    /\ pc = "Done" /\ ~config.DryRun /\ config.SpecificFile = ""
    /\ Len(ret[1].results) = 2
    /\ ~target0.exists
    /\ ret[1].results[1].Success /\ Len(ret[1].results[1].FilesUpdated) = 2
    /\ ~ret[1].results[2].Success /\ ret[1].results[2].FilesUpdated = <<>>
    /\ Len(CopiesOf(2)) = 2
    /\ CopiesOf(2)[1].ok /\ ~CopiesOf(2)[2].ok
    /\ target = [exists |-> TRUE, files |-> {"a.proto", "b.proto"}]

\* ---------------------------------------------------------------------------
\* The parser on its own: every manifest of up to MaxLines lines over LinePool,
\* every point at which reading the file can fail
\* ---------------------------------------------------------------------------
LinePool ==
    { MarkerLine,
      <<SP, "//", SP, "PROTOBUF", SP, "LIBRARIES", SP>>,
      <<"//", "Protobuf", SP, "libraries">>,
      <<"//", SP, SP, "protobuf", SP, "Libraries">>,
      <<>>,
      <<"//", SP, "protobuf", SP, "deps">>,
      <<"//", SP, "other">>,
      <<"require", SP, "x", SP, "v1">>,
      DirectiveX,
      DirectiveY,
      DirectiveY \o <<SP, "//", SP, "pinned">>,
      DirectiveX \o <<SP, "//", SP, "Protobuf", SP, "libraries">>,
      <<"replace", SP, "local-y", SP, "v0.0.0", "=>", "github.com/", "acme/y", SP, "v0.8.5">>,
      <<"replace", SP, "local-x", SP, "v0.0.0", SP, "acme/x", SP, "v1.2.3">>,
      <<"replace", SP, "local-x", SP, "v0.0.0", SP, "=>", SP, "acme/x">> }

IdleConfig ==
    [ Repositories |-> <<>>, SourcePath |-> "schemas/api/v1", TargetPath |-> "",
      BufYamlPath |-> "buf.yaml", GoModPath |-> "../go.mod", SpecificFile |-> "",
      DryRun |-> FALSE, SingleRepo |-> FALSE, SpecifiedVersion |-> <<>> ]

InitParse ==
    /\ \/ goMod = NoGoModFile
       \/ \E n \in 0..MaxLines : \E ls \in [1..n -> LinePool] : \E k \in 0..(n + 1) :
              goMod = GoModFile(ls, k)
    /\ config = IdleConfig
    /\ bufYaml \in {b \in BufYamlFiles : ~b.exists}
    /\ target \in {t \in Targets : ~t.exists}
    /\ pc = "idle"
    /\ Untouched

\* goModRepo.ParseProtobufLibraries(config.GoModPath)
Parse ==
    /\ pc = "idle"
    /\ parseOut = <<>>
    /\ parseOut' = <<ParseProtobufLibraries(goMod)>>
    /\ UNCHANGED <<listResult, goMod, bufYaml, config, config0, target, target0, cache,
                   downloaded, cancelled, startedAtCancel, pc, resolved, repositories,
                   results, calls, previews, banner, ret>>

NextParse == Parse

SpecParse == InitParse /\ [][NextParse]_vars

\* ---------------------------------------------------------------------------
\* Properties of the parser
\* ---------------------------------------------------------------------------
Arrow == <<"=>">>

\* the tokens of a line: the maximal runs of atoms that are neither whitespace
\* nor the arrow, and every arrow by itself
RECURSIVE Tokens(_)
Tokens(line) ==
    IF line = <<>> THEN <<>>
    ELSE IF line[1] = SP THEN Tokens(Tail(line))
    ELSE IF line[1] = "=>" THEN <<Arrow>> \o Tokens(Tail(line))
    ELSE LET n == Min({k \in 1..Len(line) : line[k] \in {SP, "=>"}}
                      \cup {Len(line) + 1}) - 1
         IN  <<SubSeq(line, 1, n)>> \o Tokens(SubSeq(line, n + 1, Len(line)))

\* replace <local-name> <local-version> => <remote-path> <remote-version>,
\* whatever follows
WellFormedDirective(line) ==
    LET t == Tokens(line)
    IN  /\ Len(t) >= 6
        /\ t[1] = <<"replace">>
        /\ t[4] = Arrow
        /\ Arrow \notin {t[2], t[3], t[5], t[6]}

\* a replace line with too few tokens or without the arrow in its place
MalformedDirective(line) ==
    LET t == Tokens(line)
    IN  /\ Len(t) >= 1
        /\ t[1] = <<"replace">>
        /\ ~WellFormedDirective(line)

\* the identifier of the source a well-formed directive names
IdentifierOf(line) ==
    LET remotePath == Tokens(line)[5]
    IN  IF remotePath[1] = "github.com/" THEN remotePath
        ELSE <<"github.com/">> \o remotePath

\* a comment line
CommentLine(line) == HasPrefix(TrimSpace(line), <<"//">>)

\* the words "Protobuf libraries" in any letter case
HasPhrase(line) ==
    LET l == ToLower(line)
    IN  \E i, j \in 1..Len(l) :
           /\ i + 1 < j
           /\ l[i] = "protobuf" /\ l[j] = "libraries"
           /\ \A k \in (i + 1)..(j - 1) : l[k] = SP

\* a marker line: a comment line containing the phrase
MarkerComment(line) == CommentLine(line) /\ HasPhrase(line)

\* the marker line as the sample manifest writes it, in any letter case and
\* with any whitespace around it
PlainMarker(line) ==
    ToLower(TrimSpace(line)) = <<"//", SP, "protobuf", SP, "libraries">>

\* the manifest was read to its end without an I/O error
ReadWhole == goMod.exists /\ goMod.errAt = 0

Parsed == Len(parseOut) = 1

\* the manifest is a marker line followed by directive lines only
MarkerThenDirectives ==
    /\ ReadWhole
    /\ Len(goMod.lines) >= 1
    /\ PlainMarker(goMod.lines[1])
    /\ \A k \in 2..Len(goMod.lines) :
          WellFormedDirective(goMod.lines[k]) \/ MalformedDirective(goMod.lines[k])

\* C9: a marker line followed by N well-formed and M malformed directive
\* lines gives exactly the N sources of the well-formed lines, in line order,
\* and no error.
DirectivesYieldSources ==
    (Parsed /\ MarkerThenDirectives) =>
       LET good == SelectSeq(Tail(goMod.lines), WellFormedDirective)
       IN  /\ parseOut[1].Err = NoError
           /\ Len(parseOut[1].Info) = 1
           /\ Len(parseOut[1].Info[1].Repositories) = Len(good)
           /\ \A k \in 1..Len(good) :
                 parseOut[1].Info[1].Repositories[k].Name = IdentifierOf(good[k])

\* C10: a manifest without a marker line makes the parser fail with the
\* marker-not-found error and return no list, whatever else it contains.
MarkerlessManifestFails ==
    (Parsed /\ ReadWhole /\ \A k \in 1..Len(goMod.lines) : ~MarkerComment(goMod.lines[k])) =>
       /\ parseOut[1].Err = <<ErrMarker>>
       /\ parseOut[1].Info = <<>>

\* a line that ends the annotated section: blank, or a comment line that does
\* not mention protobuf
StopLine(line) ==
    \/ TrimSpace(line) = <<>>
    \/ CommentLine(line) /\ \A k \in 1..Len(line) : ToLowerAtom(line[k]) # "protobuf"

\* the first marker line of the manifest, 0 when there is none
FirstMarker ==
    LET ms == {k \in 1..Len(goMod.lines) : MarkerComment(goMod.lines[k])}
    IN  IF ms = {} THEN 0 ELSE Min(ms)

\* the first stopping line after the marker, Len + 1 when there is none
FirstStop ==
    Min({k \in (FirstMarker + 1)..Len(goMod.lines) : StopLine(goMod.lines[k])}
        \cup {Len(goMod.lines) + 1})

\* the lines of the annotated section
Section == IF FirstMarker = 0 THEN {} ELSE (FirstMarker + 1)..(FirstStop - 1)

\* C11: every source the parser returns comes from a directive line of the
\* annotated section, never from a line before the marker line or after the
\* first blank line or protobuf-less comment line that follows the marker.
SourcesComeFromSection ==
    (Parsed /\ FirstMarker # 0 /\ Len(parseOut[1].Info) = 1) =>
       LET repos == parseOut[1].Info[1].Repositories
           inside == {k \in Section : WellFormedDirective(goMod.lines[k])}
       IN  /\ Len(repos) <= Cardinality(inside)
           /\ \A j \in 1..Len(repos) :
                 \E k \in inside : repos[j].Name = IdentifierOf(goMod.lines[k])

\* a comment line that holds the phrase right after the comment token, with
\* any amount of whitespace between the two and around the line
TolerantMarker(line) ==
    LET l == ToLower(TrimSpace(line))
    IN  /\ Len(l) >= 4
        /\ l[1] = "//"
        /\ \E i \in 2..(Len(l) - 2) :
              /\ \A k \in 2..(i - 1) : l[k] = SP
              /\ SubSeq(l, i, i + 2) = <<"protobuf", SP, "libraries">>

\* C12: a comment line holding the phrase is taken as the marker whatever the
\* letter case, the whitespace around the line and the amount of whitespace
\* (none, one or several spaces) between the comment token and the phrase:
\* a manifest with such a line never fails with the marker-not-found error.
MarkerAcceptedTolerantly ==
    (Parsed /\ ReadWhole /\ \E k \in 1..Len(goMod.lines) : TolerantMarker(goMod.lines[k])) =>
       /\ parseOut[1].Err = NoError
       /\ Len(parseOut[1].Info) = 1

\* a remote path without its leading hosting prefix
StripHost(path) == IF path[1] = "github.com/" THEN Tail(path) ELSE path

\* C13: every source the parser produces has, for some directive line of the
\* manifest, the identifier "github.com/" + (the line's remote path without a
\* leading "github.com/"), that line's remote version, and the matching URL;
\* the identifier begins with "github.com/" exactly once.
SourcesAreCanonical ==
    (Parsed /\ Len(parseOut[1].Info) = 1) =>
       \A j \in 1..Len(parseOut[1].Info[1].Repositories) :
          LET r == parseOut[1].Info[1].Repositories[j]
          IN  /\ \E k \in 1..Len(goMod.lines) :
                    /\ WellFormedDirective(goMod.lines[k])
                    /\ r.Name = <<"github.com/">> \o StripHost(Tokens(goMod.lines[k])[5])
                    /\ r.Version = Tokens(goMod.lines[k])[6]
              /\ r.Name[1] = "github.com/"
              /\ Len(r.Name) >= 2 /\ r.Name[2] # "github.com/"
              /\ r.URL = <<"https://">> \o r.Name

\* C13 case: two directives naming one remote path, one with the hosting
\* prefix and one without, gave the same identifier
SamePathTwoSpellings ==
    /\ Parsed /\ ReadWhole /\ Len(goMod.lines) = 3
    /\ WellFormedDirective(goMod.lines[2]) /\ WellFormedDirective(goMod.lines[3])
    /\ Tokens(goMod.lines[2])[5] # Tokens(goMod.lines[3])[5]
    /\ Len(parseOut[1].Info) = 1
    /\ Len(parseOut[1].Info[1].Repositories) = 2
    /\ parseOut[1].Info[1].Repositories[1].Name = parseOut[1].Info[1].Repositories[2].Name

\* the marker line is written as in the sample manifest, no directive line
\* stands before it and none in its section
MarkerWithEmptySection ==
    /\ ReadWhole
    /\ FirstMarker # 0
    /\ PlainMarker(goMod.lines[FirstMarker])
    /\ \A k \in (1..FirstMarker) \cup Section : ~WellFormedDirective(goMod.lines[k])

\* C14: when the marker is found and no directive line of the annotated
\* section matches, the parser returns an empty source list and no error.
EmptySectionIsNoError ==
    (Parsed /\ MarkerWithEmptySection) =>
       /\ parseOut[1].Err = NoError
       /\ parseOut[1].Info = <<[Repositories |-> <<>>]>>

\* C14 case: a marker, a malformed directive, then the line that ends the section
EmptySectionParsed ==
    /\ Parsed /\ MarkerWithEmptySection
    /\ Len(goMod.lines) = 3 /\ FirstMarker = 1 /\ FirstStop = 3
    /\ MalformedDirective(goMod.lines[2])

\* the line holds the text "// protobuf libraries", in any letter case,
\* anywhere
CarriesMarkerText(line) ==
    \E i \in 1..(Len(line) - 4) :
       ToLower(SubSeq(line, i, i + 4)) = <<"//", SP, "protobuf", SP, "libraries">>

\* the first line holding the marker text, 0 when there is none
FirstCarrier ==
    LET cs == {k \in 1..Len(goMod.lines) : CarriesMarkerText(goMod.lines[k])}
    IN  IF cs = {} THEN 0 ELSE Min(cs)

\* the first line after it that ends the section: a stopping line that does
\* not hold the marker text; Len + 1 when there is none
FirstStopAfterCarrier ==
    Min({k \in (FirstCarrier + 1)..Len(goMod.lines) :
            ~CarriesMarkerText(goMod.lines[k]) /\ StopLine(goMod.lines[k])}
        \cup {Len(goMod.lines) + 1})

\* the directive lines that yield a source: between the two, well formed and
\* without the marker text
YieldingLines ==
    SelectSeq([k \in 1..Len(goMod.lines) |-> k],
              LAMBDA k : /\ FirstCarrier < k /\ k < FirstStopAfterCarrier
                         /\ ~CarriesMarkerText(goMod.lines[k])
                         /\ WellFormedDirective(goMod.lines[k]))

VersionLists == {<<>>, <<"v1.0.0">>, <<"v1.10.0", "v1.2.0">>}

\* GoModRepositoryImpl.ListVersions: a version list, or an error
ListVersionsOutcomes ==
    {[versions |-> v, err |-> NoError] : v \in VersionLists}
    \cup {[versions |-> <<>>, err |-> <<"failed to fetch versions for">>]}

\* result[name] = versions
MapPut(res, name, versions) ==
    [n \in DOMAIN res \cup {name} |-> IF n = name THEN versions ELSE res[n]]

\* variant: a failed query leaves an empty entry
ListVersionsBodyKeepingFailures(res, repo, o) ==
    IF o.err # NoError THEN MapPut(res, repo.Name, <<>>)
    ELSE MapPut(res, repo.Name, o.versions)

\* lines 320-326: one pass of the loop, o being what goModRepo.ListVersions gave
ListVersionsBody(res, repo, o) ==
    IF o.err # NoError THEN res
    ELSE MapPut(res, repo.Name, o.versions)

\* lines 319-327
ListVersionsLoop ==
    /\ pc = "Listing"
    /\ Len(calls) < Len(repositories)
    /\ LET k == Len(calls) + 1
       IN  \E o \in ListVersionsOutcomes :
              /\ calls' = Append(calls, Call("ListVersions", k,
                                             <<repositories[k].Name, o.versions>>,
                                             o.err = NoError))
              /\ listResult' = ListVersionsBody(listResult, repositories[k], o)
    /\ UNCHANGED <<goMod, parseOut, bufYaml, config, config0, target, target0, cache,
                   downloaded, cancelled, startedAtCancel, pc, resolved, repositories,
                   results, previews, banner, ret>>

\* line 329
ListVersionsReturn ==
    /\ pc = "Listing"
    /\ Len(calls) = Len(repositories)
    /\ ret' = <<[result |-> listResult, err |-> NoError]>>
    /\ pc' = "Listed"
    /\ UNCHANGED <<listResult, goMod, parseOut, bufYaml, config, config0, target, target0,
                   cache, downloaded, cancelled, startedAtCancel, resolved,
                   repositories, results, calls, previews, banner>>

InitList ==
    /\ goMod = NoGoModFile
    /\ config = IdleConfig
    /\ bufYaml \in {b \in BufYamlFiles : ~b.exists}
    /\ target \in {t \in Targets : ~t.exists}
    /\ pc = "Listing"
    /\ config0 = WithoutTargetPath(config)
    /\ target0 = target
    /\ cache = <<>>
    /\ downloaded = {}
    /\ cancelled = FALSE
    /\ startedAtCancel = -1
    /\ resolved = <<>>
    /\ repositories \in BoundedSeq({RepoX, RepoY}, MaxRepos)
    /\ results = <<>>
    /\ calls = <<>>
    /\ previews = <<>>
    /\ banner = <<>>
    /\ ret = <<>>
    /\ parseOut = <<>>
    /\ listResult = <<>>

NextList ==
    \/ ListVersionsLoop
    \/ ListVersionsReturn

SpecList == InitList /\ [][NextList]_vars

\* the last query for the identifier name that succeeded, 0 when none did
LastSuccess(name) ==
    LET ok == {k \in 1..Len(calls) : calls[k].arg[1] = name /\ calls[k].ok}
    IN  IF ok = {} THEN 0 ELSE Max(ok)

NestedTrees ==
    {[dir |-> TRUE, files |-> f] :
        f \in { {"a.proto", "b.proto"},
                {"sub/a.proto"},
                {"a.proto", "sub/a.proto"},
                {"a.proto", "b.proto", "sub/a.proto", "sub/deep/b.proto"} }}

\* the configurations that copy whole subdirectories
CopyConfigs ==
    {c \in Configs :
        /\ c.Repositories \in {<<RepoX>>, <<RepoX, RepoY>>}
        /\ c.SourcePath # "" /\ c.BufYamlPath # "" /\ c.GoModPath # ""
        /\ c.TargetPath = "" /\ c.SpecificFile = ""
        /\ ~c.SingleRepo /\ c.SpecifiedVersion = <<>>}

InitCopy ==
    /\ config \in CopyConfigs
    /\ bufYaml \in BufYamlFiles
    /\ goMod = NoGoModFile
    /\ target \in Targets
    /\ pc = "Validating"
    /\ cache \in [{<<config.Repositories[k].Name, config.Repositories[k].Version>> :
                      k \in 1..Len(config.Repositories)} -> NestedTrees]
    /\ config0 = WithoutTargetPath(config)
    /\ target0 = target
    /\ downloaded = {}
    /\ cancelled = FALSE
    /\ startedAtCancel = -1
    /\ resolved = <<>>
    /\ repositories = <<>>
    /\ results = <<>>
    /\ calls = <<>>
    /\ previews = <<>>
    /\ banner = <<>>
    /\ ret = <<>>
    /\ parseOut = <<>>
    /\ listResult = <<>>

SpecCopy == InitCopy /\ [][Next]_vars

\* C38: the bulk copy flattens the source tree.  Every file the walk lists,
\* at whatever depth, is copied to target/<base name>, in listing order, and
\* a successful outcome has one FilesUpdated entry per listed file with that
\* name and path: files sharing a base name are copied to one destination,
\* one after the other, and appear as equal entries, so the entries can be
\* more than the files written.  The target directory gets no subdirectory.
BulkCopyFlattens ==
    (~config.DryRun /\ config.SpecificFile = "") =>
       /\ \A f \in target.files : Base(f) = f
       /\ \A k \in 1..Len(results) :
             results[k].Success =>
                LET listed == SelectSeq(WalkOrder, LAMBDA n : n \in TreeOf(k).files)
                    copies == CopiesOf(k)
                IN  /\ Len(results[k].FilesUpdated) = Len(listed)
                    /\ Len(copies) = Len(listed)
                    /\ \A j \in 1..Len(listed) :
                          LET dst == <<"target", config.TargetPath, Base(listed[j])>>
                          IN  /\ results[k].FilesUpdated[j] = ProtoFile(Base(listed[j]), dst)
                              /\ copies[j].arg = dst /\ copies[j].ok
                              /\ Base(listed[j]) \in target.files

\* C38 case: a.proto and sub/a.proto were both copied to target/a.proto; the
\* outcome lists the same file twice, the new target directory holds one
SameBaseNameCopiedTwice ==
    /\ pc = "Done" /\ ~config.DryRun
    /\ Len(ret[1].results) = 1
    /\ TreeOf(1).files = {"a.proto", "sub/a.proto"}
    /\ ret[1].results[1].Success
    /\ LET copied == ProtoFile("a.proto", <<"target", config.TargetPath, "a.proto">>)
       IN  ret[1].results[1].FilesUpdated = <<copied, copied>>
    /\ Len(CopiesOf(1)) = 2
    /\ ~target0.exists
    /\ target = [exists |-> TRUE, files |-> {"a.proto"}]

====
